---------------------------- MODULE Spec2Model ----------------------------
(***************************************************************************)
(* A model of the measurement core of ovs_performance.py:                  *)
(*   - binary_search, the zero-loss search over a ladder of offered loads; *)
(*   - warm_up_verify and flow_table_cool_down, the two bounded waits;     *)
(*   - one test iteration of the topology runners (test_p2v2p_single_      *)
(*     packet_size, test_p2v, test_p2p, test_p_single_packet_size);        *)
(*   - the programming of the OpenFlow rules, the rate averages, the port  *)
(*     counter readings and their deltas, calc_loss_percentage and the     *)
(*     CPU statistics.                                                     *)
(* Loads, losses and flow counts are integers; a fractional load step of   *)
(* the program is a step in a finer load unit here.                        *)
(***************************************************************************)
EXTENDS Integers, Sequences, FiniteSets, TLC

(***************************************************************************)
(* Bounds of the model.                                                    *)
(***************************************************************************)
MaxLoad == 7
MaxStep == 3
MaxLoss == 2
MaxFlows == 2
MaxTimeout == 3
MaxRunTime == 21
MaxCount == 2
MaxSeries == 6
MaxStrip == 1
MaxVmSamples == 12
MaxReading == 1
MaxPkts == 7
MaxCpu == 1
MaxThreads == 3
MaxSizes == 3
MaxUnit == 3
MaxOutside == 2

VARIABLES
    \* the process: "none" while it runs, else why sys.exit(-1) ended it
    exit_reason,
    \* binary_search
    min_value, max_value, bs_step, required_result,
    values, current_min, current_max, results, calls, bs_pc, bs_ret,
    \* warm_up_verify
    wu_pc, requested_flows, timeout, wu_run_time, wu_active_flows, wu_polls,
    wu_ret,
    \* flow_table_cool_down
    cd_pc, failure_fatal, cd_enabled, cd_run_time, cd_active_flows,
    cd_polls, cd_warned,
    \* one test iteration
    topology, nr_of_flows, run_time, warm_up, warm_up_no_fail,
    warm_up_timeout, it,
    \* create_ovs_bidirectional_of_rules
    rules,
    \* the rate averages
    rate,
    \* get_of_port_packet_stats and the deltas of a run
    ports,
    \* calc_loss_percentage
    loss_pct,
    \* get_cpu_monitoring_stats
    cpu,
    \* get_result_sets_from_zero_loss_results
    sets,
    \* test_p2v2p_zero_loss, test_p_zero_loss: the search of one packet size
    zl,
    \* one run at a load: the callers of the runners and the rate they set
    single_run

procVars == << exit_reason >>

bsVars == << min_value, max_value, bs_step, required_result,
             values, current_min, current_max, results, calls, bs_pc, bs_ret >>

wuVars == << wu_pc, requested_flows, timeout, wu_run_time, wu_active_flows,
             wu_polls, wu_ret >>

cdVars == << cd_pc, failure_fatal, cd_enabled, cd_run_time, cd_active_flows,
             cd_polls, cd_warned >>

\* The configuration of an iteration, and its state: where it is (pc), its
\* locals, what runs on the tester and the DUT, and the calls made so far.
itConfig == << topology, nr_of_flows, run_time, warm_up, warm_up_no_fail,
               warm_up_timeout >>

itVars == << itConfig, it >>

\* The state of the helper functions, one record each.
fnVars == << rules, rate, ports, loss_pct, cpu >>

\* The state of the zero-loss tests around binary_search.
zlVars == << sets, zl, single_run >>

vars == << procVars, bsVars, wuVars, cdVars, itVars, fnVars, zlVars >>

(***************************************************************************)
(* Process exit and remote commands                                        *)
(***************************************************************************)
Running == exit_reason = "none"

\* dut_exec(..., die_on_error=True): the command succeeds, or it fails and
\* the process ends.
RemoteOutcomes == {"ok", "failed"}

ProcIdle == exit_reason = "none"

(***************************************************************************)
(* binary_search                                                           *)
(***************************************************************************)
NotFound == -1

\* What run_test_function can report for a load, reduced to the loss that
\* get_results_function derives from it.
LossValues == 0 .. MaxLoss

PyMin(a, b) == IF a <= b THEN a ELSE b

\* np.arange(start, stop, -step): start, start-step, ... while above stop.
ArangeDown(start, stop, step) ==
    LET n == IF start > stop THEN (start - stop + step - 1) \div step ELSE 0
    IN  [i \in 1 .. n |-> start - (i - 1) * step]

\* values[::-1]
Reversed(s) == [i \in 1 .. Len(s) |-> s[Len(s) + 1 - i]]

\* The ladder with the reversal left out: high to low.
LadderNotReversed(lo, hi, step) == ArangeDown(hi, lo - PyMin(lo, step), step)

\* The candidate loads, low to high.
Ladder(lo, hi, step) == Reversed(ArangeDown(hi, lo - PyMin(lo, step), step))

\* values[i] for a 0-based index i.
ValueAt(i) == values[i + 1]

\* The middle taken at the lower end of the bracket.
CurrentTestAtMin(lo, hi) == lo

\* int(current_min + ((current_max - current_min) / 2))
CurrentTest(lo, hi) == lo + ((hi - lo) \div 2)

\* The comparison of the narrowing with equality counted as too high.
LossTooHighInclusive(result, required) == result >= required

\* result > required_result
LossTooHigh(result, required) == result > required

\* The acceptance test with equality refused.
AcceptedStrict(result, required) == result < required

\* get_results_function(...) <= required_result
Accepted(result, required) == result <= required

\* The memo test left out: every post-convergence check runs the test.
AlwaysRun(res, v) == TRUE

\* not values[i] in results
NotYetRun(res, v) == v \notin DOMAIN res

BSInit ==
    /\ min_value \in 0 .. MaxLoad
    /\ max_value \in min_value .. MaxLoad
    /\ bs_step \in 1 .. MaxStep
    /\ required_result \in 0 .. (MaxLoss - 1)
    /\ values = << >>
    /\ current_min = 0
    /\ current_max = 0
    /\ results = << >>
    /\ calls = << >>
    /\ bs_pc = "start"
    /\ bs_ret = "none"

\* binary_search is not running.
BSIdle ==
    /\ min_value = 0
    /\ max_value = 0
    /\ bs_step = 1
    /\ required_result = 0
    /\ values = << >>
    /\ current_min = 0
    /\ current_max = 0
    /\ results = << >>
    /\ calls = << >>
    /\ bs_pc = "idle"
    /\ bs_ret = "none"

\* Entry: build the ladder, return at once when it has fewer than two
\* candidates, else open the bracket over the whole ladder.
BSBuild ==
    /\ bs_pc = "start"
    /\ LET v == Ladder(min_value, max_value, bs_step)
       IN  /\ values' = v
           /\ IF Len(v) <= 1
                 THEN /\ bs_pc' = "done"
                      /\ bs_ret' = NotFound
                      /\ UNCHANGED << current_min, current_max >>
                 ELSE /\ bs_pc' = "loop"
                      /\ current_min' = 0
                      /\ current_max' = Len(v) - 1
                      /\ UNCHANGED bs_ret
    /\ UNCHANGED << min_value, max_value, bs_step, required_result,
                    results, calls >>
    /\ UNCHANGED << procVars, wuVars, cdVars, itVars, fnVars, zlVars >>

\* One iteration of the narrowing loop: run the middle candidate, store its
\* result, move one end of the bracket onto it.
BSNarrow ==
    /\ bs_pc = "loop"
    /\ current_min # current_max - 1
    /\ LET t == CurrentTest(current_min, current_max)
       IN  \E loss \in LossValues :
             /\ results' = (ValueAt(t) :> loss) @@ results
             /\ calls' = Append(calls, ValueAt(t))
             /\ IF LossTooHigh(loss, required_result)
                   THEN /\ current_max' = t
                        /\ UNCHANGED current_min
                   ELSE /\ current_min' = t
                        /\ UNCHANGED current_max
    /\ UNCHANGED << min_value, max_value, bs_step, required_result,
                    values, bs_pc, bs_ret >>
    /\ UNCHANGED << procVars, wuVars, cdVars, itVars, fnVars, zlVars >>

\* The bracket is one apart: run the upper candidate unless it was run, and
\* return it when its loss is accepted.
BSCheckMax ==
    /\ bs_pc = "loop"
    /\ current_min = current_max - 1
    /\ \E loss \in LossValues :
         LET v == ValueAt(current_max)
             run == NotYetRun(results, v)
             res == IF run THEN (v :> loss) @@ results ELSE results
         IN  /\ results' = res
             /\ calls' = IF run THEN Append(calls, v) ELSE calls
             /\ IF Accepted(res[v], required_result)
                   THEN /\ bs_pc' = "done"
                        /\ bs_ret' = v
                   ELSE /\ bs_pc' = "check_min"
                        /\ UNCHANGED bs_ret
    /\ UNCHANGED << min_value, max_value, bs_step, required_result,
                    values, current_min, current_max >>
    /\ UNCHANGED << procVars, wuVars, cdVars, itVars, fnVars, zlVars >>

\* The upper candidate failed: run the lower one unless it was run, return
\* it when its loss is accepted and -1 otherwise.
BSCheckMin ==
    /\ bs_pc = "check_min"
    /\ \E loss \in LossValues :
         LET v == ValueAt(current_min)
             run == NotYetRun(results, v)
             res == IF run THEN (v :> loss) @@ results ELSE results
         IN  /\ results' = res
             /\ calls' = IF run THEN Append(calls, v) ELSE calls
             /\ bs_ret' = IF Accepted(res[v], required_result)
                             THEN v ELSE NotFound
             /\ bs_pc' = "done"
    /\ UNCHANGED << min_value, max_value, bs_step, required_result,
                    values, current_min, current_max >>
    /\ UNCHANGED << procVars, wuVars, cdVars, itVars, fnVars, zlVars >>

(***************************************************************************)
(* warm_up_verify                                                          *)
(***************************************************************************)
\* What get_active_datapath_flows can read.
FlowReadings == 0 .. 2 * MaxFlows

\* The model stops polling here when the code has no timeout (timeout = 0).
WarmUpPollCap == MaxTimeout + 2

\* The timeout test left out.
TimeoutNeverChecked(t, rt) == FALSE

\* timeout != 0 and run_time >= timeout
WarmUpTimedOut(t, rt) == t # 0 /\ rt >= t

WUInit ==
    /\ wu_pc = "loop"
    /\ requested_flows \in 1 .. 2 * MaxFlows
    /\ timeout \in 0 .. MaxTimeout
    /\ wu_run_time = 0
    /\ wu_active_flows = 0
    /\ wu_polls = 0
    /\ wu_ret = FALSE

\* warm_up_verify is not running.
WUIdle ==
    /\ wu_pc = "idle"
    /\ requested_flows = 0
    /\ timeout = 0
    /\ wu_run_time = 0
    /\ wu_active_flows = 0
    /\ wu_polls = 0
    /\ wu_ret = FALSE

\* The loop condition fails: flows exist, return True.
WarmUpReturnTrue ==
    /\ Running
    /\ wu_pc = "loop"
    /\ ~(wu_active_flows < requested_flows)
    /\ wu_pc' = "done"
    /\ wu_ret' = TRUE
    /\ UNCHANGED << requested_flows, timeout, wu_run_time, wu_active_flows,
                    wu_polls >>
    /\ UNCHANGED << procVars, bsVars, cdVars, itVars, fnVars, zlVars >>

\* One pass of the loop body that ends in the timeout: return False.
WarmUpTimeout ==
    /\ Running
    /\ wu_pc = "loop"
    /\ wu_active_flows < requested_flows
    /\ WarmUpTimedOut(timeout, wu_run_time + 1)
    /\ wu_run_time' = wu_run_time + 1
    /\ wu_pc' = "done"
    /\ wu_ret' = FALSE
    /\ UNCHANGED << requested_flows, timeout, wu_active_flows, wu_polls >>
    /\ UNCHANGED << procVars, bsVars, cdVars, itVars, fnVars, zlVars >>

\* One pass of the loop body that sleeps a second and reads the flow count;
\* the read is a remote command whose failure ends the process.
WarmUpPoll ==
    /\ Running
    /\ wu_pc = "loop"
    /\ wu_active_flows < requested_flows
    /\ ~WarmUpTimedOut(timeout, wu_run_time + 1)
    /\ wu_run_time < WarmUpPollCap
    /\ wu_run_time' = wu_run_time + 1
    /\ wu_polls' = wu_polls + 1
    /\ \E out \in RemoteOutcomes :
         IF out = "ok"
            THEN /\ wu_active_flows' \in FlowReadings
                 /\ UNCHANGED exit_reason
            ELSE /\ exit_reason' = "remote_failure"
                 /\ UNCHANGED wu_active_flows
    /\ UNCHANGED << wu_pc, requested_flows, timeout, wu_ret >>
    /\ UNCHANGED << bsVars, cdVars, itVars, fnVars, zlVars >>

(***************************************************************************)
(* flow_table_cool_down                                                    *)
(***************************************************************************)
CoolDownThreshold == 32

CoolDownCeiling == 20

\* Readings around the threshold.
CoolDownReadings == {0, CoolDownThreshold, CoolDownThreshold + 1}

\* The ceiling test one pass late.
CeilingPassedLate(rt) == rt > CoolDownCeiling

\* run_time >= 20
CeilingReached(rt) == rt >= CoolDownCeiling

\* active_flows > 32
StillAbove(flows) == flows > CoolDownThreshold

CDInit ==
    /\ cd_pc = "start"
    /\ failure_fatal \in BOOLEAN
    \* config.warm_up or not config.no_cool_down
    /\ cd_enabled \in BOOLEAN
    /\ cd_run_time = 0
    /\ cd_active_flows = 0
    /\ cd_polls = 0
    /\ cd_warned = FALSE

\* flow_table_cool_down is not running.
CDIdle ==
    /\ cd_pc = "idle"
    /\ failure_fatal = FALSE
    /\ cd_enabled = FALSE
    /\ cd_run_time = 0
    /\ cd_active_flows = 0
    /\ cd_polls = 0
    /\ cd_warned = FALSE

\* Entry: nothing to do when cool-down is off, else the first reading.
CoolDownEnter ==
    /\ Running
    /\ cd_pc = "start"
    /\ IF ~cd_enabled
          THEN /\ cd_pc' = "done"
               /\ UNCHANGED << cd_active_flows, cd_polls, exit_reason >>
          ELSE /\ cd_polls' = cd_polls + 1
               /\ cd_pc' = "loop"
               /\ \E out \in RemoteOutcomes :
                    IF out = "ok"
                       THEN /\ cd_active_flows' \in CoolDownReadings
                            /\ UNCHANGED exit_reason
                       ELSE /\ exit_reason' = "remote_failure"
                            /\ UNCHANGED cd_active_flows
    /\ UNCHANGED << failure_fatal, cd_enabled, cd_run_time, cd_warned >>
    /\ UNCHANGED << bsVars, wuVars, itVars, fnVars, zlVars >>

\* The loop condition fails: the flows are gone, return.
CoolDownReturn ==
    /\ Running
    /\ cd_pc = "loop"
    /\ ~StillAbove(cd_active_flows)
    /\ cd_pc' = "done"
    /\ UNCHANGED << failure_fatal, cd_enabled, cd_run_time, cd_active_flows,
                    cd_polls, cd_warned >>
    /\ UNCHANGED << procVars, bsVars, wuVars, itVars, fnVars, zlVars >>

\* One pass of the loop body that hits the ceiling: exit when fatal, else
\* warn and leave the loop.
CoolDownCeilingHit ==
    /\ Running
    /\ cd_pc = "loop"
    /\ StillAbove(cd_active_flows)
    /\ CeilingReached(cd_run_time + 1)
    /\ cd_run_time' = cd_run_time + 1
    /\ IF failure_fatal
          THEN /\ exit_reason' = "cool_down_timeout"
               /\ UNCHANGED << cd_pc, cd_warned >>
          ELSE /\ cd_warned' = TRUE
               /\ cd_pc' = "done"
               /\ UNCHANGED exit_reason
    /\ UNCHANGED << failure_fatal, cd_enabled, cd_active_flows, cd_polls >>
    /\ UNCHANGED << bsVars, wuVars, itVars, fnVars, zlVars >>

\* One pass of the loop body below the ceiling: read the flow count, sleep.
CoolDownPoll ==
    /\ Running
    /\ cd_pc = "loop"
    /\ StillAbove(cd_active_flows)
    /\ ~CeilingReached(cd_run_time + 1)
    /\ cd_run_time' = cd_run_time + 1
    /\ cd_polls' = cd_polls + 1
    /\ \E out \in RemoteOutcomes :
         IF out = "ok"
            THEN /\ cd_active_flows' \in CoolDownReadings
                 /\ UNCHANGED exit_reason
            ELSE /\ exit_reason' = "remote_failure"
                 /\ UNCHANGED cd_active_flows
    /\ UNCHANGED << cd_pc, failure_fatal, cd_enabled, cd_warned >>
    /\ UNCHANGED << bsVars, wuVars, itVars, fnVars, zlVars >>

(***************************************************************************)
(* One test iteration: test_p2v2p_single_packet_size, the loop body of     *)
(* test_p2v and of test_p2p, test_p_single_packet_size.                    *)
(***************************************************************************)
Topologies == {"p2v2p", "p2v", "p2p", "p"}

\* main: run time should be [20..3600] seconds.
MinRunTime == 20

\* The runners that use a VM.
UsesVm == topology \in {"p2v2p", "p2v"}

\* The calls to tester.start_traffic so far.
TrafficStarts(tr) == Cardinality({i \in 1 .. Len(tr) : tr[i] = "start_traffic"})

ItStart ==
    [pc |-> "create_rules",
     warm_up_done |-> FALSE,
     stream_configured |-> FALSE,
     traffic_running |-> FALSE,
     vm_app_running |-> FALSE,
     cpu_monitoring |-> FALSE,
     wait_i |-> 0,
     snapshots |-> 0,
     trace |-> << >>]

ItInit ==
    /\ topology \in Topologies
    /\ nr_of_flows \in 1 .. MaxFlows
    /\ run_time \in MinRunTime .. MaxRunTime
    /\ warm_up \in BOOLEAN
    /\ warm_up_no_fail \in BOOLEAN
    /\ warm_up_timeout \in 0 .. MaxTimeout
    /\ it = ItStart

\* No test iteration is running.
ItIdle ==
    /\ topology = "none"
    /\ nr_of_flows = 0
    /\ run_time = 0
    /\ warm_up = FALSE
    /\ warm_up_no_fail = FALSE
    /\ warm_up_timeout = 0
    /\ it = [ItStart EXCEPT !.pc = "idle"]

\* A step of the iteration that runs remote commands with die_on_error (or
\* reads their output and calls sys.exit when it is not as expected): they
\* succeed and the iteration moves to `next`, or one fails and the process
\* ends where it is.
RemoteStep(next) ==
    \E out \in RemoteOutcomes :
        IF out = "ok"
           THEN /\ it' = next
                /\ UNCHANGED exit_reason
           ELSE /\ exit_reason' = "remote_failure"
                /\ UNCHANGED it

\* A step of the iteration that cannot end the process.
LocalStep(next) ==
    /\ it' = next
    /\ UNCHANGED exit_reason

\* die = kwargs.pop("die", True) in stop_cpu_monitoring and in
\* stop_traffic_rx_on_vm: the test iterations pass no die.
StopDie == TRUE

\* A stop command of the iteration, addressed by process name.  With the
\* process gone `pidof` prints nothing, and the last command of the line
\* (kill -s INT without a pid, tail --pid= without a pid) fails, so the
\* command line fails; with the process there it succeeds or fails like any
\* remote command.  A failure ends the process when die is set, and is
\* passed over otherwise.
StopCommand(present, next) ==
    \E out \in RemoteOutcomes :
        IF (out = "ok" /\ present) \/ ~StopDie
           THEN /\ it' = next
                /\ UNCHANGED exit_reason
           ELSE /\ exit_reason' = "remote_failure"
                /\ UNCHANGED it

\* A tool started on the DUT or the VM ends on its own while the traffic
\* runs: pidstat and mpstat, or testpmd.  The program holds no handle to
\* them and learns nothing of it.
RemoteProcessExits ==
    /\ Running
    /\ it.pc = "wait"
    /\ \/ /\ it.cpu_monitoring
          /\ it' = [it EXCEPT !.cpu_monitoring = FALSE]
       \/ /\ it.vm_app_running
          /\ it' = [it EXCEPT !.vm_app_running = FALSE]
    /\ UNCHANGED exit_reason
    /\ UNCHANGED << itConfig, bsVars, wuVars, cdVars, fnVars, zlVars >>

\* Create OVS OpenFlow rules (clear, program, verify the count).
IterCreateRules ==
    /\ Running
    /\ it.pc = "create_rules"
    /\ RemoteStep([it EXCEPT !.pc = "configure",
                             !.trace = Append(@, "create_rules")])
    /\ UNCHANGED << itConfig, bsVars, wuVars, cdVars, fnVars, zlVars >>

\* Initializing packet generation: tester.configure_traffic_stream.
IterConfigureStream ==
    /\ Running
    /\ it.pc = "configure"
    /\ LocalStep([it EXCEPT
                    !.pc = IF warm_up THEN "warm_up_start" ELSE "clear",
                    !.stream_configured = TRUE,
                    !.trace = Append(@, "configure_traffic_stream")])
    /\ UNCHANGED << itConfig, bsVars, wuVars, cdVars, fnVars, zlVars >>

\* Flow table warm-up: start the loop on the VM (p2v2p), start the traffic
\* and enter warm_up_verify.
IterWarmUpStart ==
    /\ Running
    /\ it.pc = "warm_up_start"
    /\ IF topology = "p2v2p"
          THEN RemoteStep([it EXCEPT
                    !.pc = "warm_up_verify",
                    !.vm_app_running = TRUE,
                    !.traffic_running = TRUE,
                    !.trace = @ \o << "start_traffic_loop_on_vm",
                                      "start_traffic" >>])
          ELSE LocalStep([it EXCEPT
                    !.pc = "warm_up_verify",
                    !.traffic_running = TRUE,
                    !.trace = Append(@, "start_traffic")])
    /\ IF exit_reason' = "none"
          THEN /\ wu_pc' = "loop"
               /\ requested_flows' = IF topology = "p2v2p"
                                        THEN nr_of_flows * 2
                                        ELSE nr_of_flows
               /\ timeout' = warm_up_timeout
               /\ wu_run_time' = 0
               /\ wu_active_flows' = 0
               /\ wu_polls' = 0
               /\ wu_ret' = FALSE
          ELSE UNCHANGED wuVars
    /\ UNCHANGED << itConfig, bsVars, cdVars, fnVars, zlVars >>

\* warm_up_verify returned: keep its result, stop the warm-up traffic.
IterWarmUpStop ==
    /\ Running
    /\ it.pc = "warm_up_verify"
    /\ wu_pc = "done"
    /\ LocalStep([it EXCEPT !.pc = "warm_up_decide",
                            !.warm_up_done = wu_ret,
                            !.traffic_running = FALSE,
                            !.trace = Append(@, "stop_traffic")])
    /\ wu_pc' = "idle"
    /\ requested_flows' = 0
    /\ timeout' = 0
    /\ wu_run_time' = 0
    /\ wu_active_flows' = 0
    /\ wu_polls' = 0
    /\ wu_ret' = FALSE
    /\ UNCHANGED << itConfig, bsVars, cdVars, fnVars, zlVars >>

\* The decision with warm_up_no_fail ignored.
WarmUpFatalIgnoringNoFail(done, no_fail) == ~done

\* not warm_up_done and not config.warm_up_no_fail
WarmUpFatal(done, no_fail) == ~done /\ ~no_fail

\* The decision after the warm-up: sys.exit(-1), or go on.
IterWarmUpDecide ==
    /\ Running
    /\ it.pc = "warm_up_decide"
    /\ IF WarmUpFatal(it.warm_up_done, warm_up_no_fail)
          THEN /\ exit_reason' = "warm_up_timeout"
               /\ UNCHANGED it
          ELSE LocalStep([it EXCEPT !.pc = "clear"])
    /\ UNCHANGED << itConfig, bsVars, wuVars, cdVars, fnVars, zlVars >>

\* The receiver on the VM is started after the counters are cleared, unless
\* the warm-up of p2v2p started it.
StartsReceiver == topology = "p2v" \/ (topology = "p2v2p" /\ ~warm_up)

\* Clear all statistics and take the start readings of the port counters.
IterClearStatistics ==
    /\ Running
    /\ it.pc = "clear"
    /\ RemoteStep([it EXCEPT
                     !.pc = IF StartsReceiver THEN "start_rx" ELSE "start_cpu",
                     !.trace = @ \o << "clear_statistics",
                                       "get_of_port_packet_stats" >>])
    /\ UNCHANGED << itConfig, bsVars, wuVars, cdVars, fnVars, zlVars >>

\* Start packet receiver on VM.
IterStartReceiver ==
    /\ Running
    /\ it.pc = "start_rx"
    /\ RemoteStep([it EXCEPT
                     !.pc = "start_cpu",
                     !.vm_app_running = TRUE,
                     !.trace = Append(@, IF topology = "p2v2p"
                                            THEN "start_traffic_loop_on_vm"
                                            ELSE "start_traffic_rx_on_vm")])
    /\ UNCHANGED << itConfig, bsVars, wuVars, cdVars, fnVars, zlVars >>

\* Start CPU monitoring on DUT.
IterStartCpuMonitoring ==
    /\ Running
    /\ it.pc = "start_cpu"
    /\ RemoteStep([it EXCEPT !.pc = "start_traffic",
                             !.cpu_monitoring = TRUE,
                             !.trace = Append(@, "start_cpu_monitoring")])
    /\ UNCHANGED << itConfig, bsVars, wuVars, cdVars, fnVars, zlVars >>

\* Start packet generation; the loop variable of the wait starts at 1.
IterStartTraffic ==
    /\ Running
    /\ it.pc = "start_traffic"
    /\ LocalStep([it EXCEPT !.pc = "wait",
                            !.traffic_running = TRUE,
                            !.wait_i = 1,
                            !.trace = Append(@, "start_traffic")])
    /\ UNCHANGED << itConfig, bsVars, wuVars, cdVars, fnVars, zlVars >>

\* for i in range(1, config.run_time): sleep a second, take a snapshot
\* (test_p2v only sleeps).
IterWaitTick ==
    /\ Running
    /\ it.pc = "wait"
    /\ it.wait_i < run_time
    /\ LocalStep([it EXCEPT
                    !.wait_i = @ + 1,
                    !.snapshots = IF topology = "p2v" THEN @ ELSE @ + 1])
    /\ UNCHANGED << itConfig, bsVars, wuVars, cdVars, fnVars, zlVars >>

\* The two stops in the other order: the packet stream first, then the CPU
\* monitoring.
IterStopTrafficThenCpuMonitoring ==
    /\ Running
    /\ it.pc = "wait"
    /\ ~(it.wait_i < run_time)
    /\ StopCommand(it.cpu_monitoring,
                   [it EXCEPT !.pc = IF UsesVm THEN "stop_rx" ELSE "gather",
                              !.traffic_running = FALSE,
                              !.cpu_monitoring = FALSE,
                              !.trace = @ \o << "stop_traffic",
                                                "stop_cpu_monitoring" >>])
    /\ UNCHANGED << itConfig, bsVars, wuVars, cdVars, fnVars, zlVars >>

\* Stop CPU monitoring on DUT.
IterStopCpuMonitoring ==
    /\ Running
    /\ it.pc = "wait"
    /\ ~(it.wait_i < run_time)
    /\ StopCommand(it.cpu_monitoring,
                   [it EXCEPT !.pc = "stop_traffic",
                              !.cpu_monitoring = FALSE,
                              !.trace = Append(@, "stop_cpu_monitoring")])
    /\ UNCHANGED << itConfig, bsVars, wuVars, cdVars, fnVars, zlVars >>

\* Stopping packet stream.
IterStopTraffic ==
    /\ Running
    /\ it.pc = "stop_traffic"
    /\ LocalStep([it EXCEPT !.pc = IF UsesVm THEN "stop_rx" ELSE "gather",
                            !.traffic_running = FALSE,
                            !.trace = Append(@, "stop_traffic")])
    /\ UNCHANGED << itConfig, bsVars, wuVars, cdVars, fnVars, zlVars >>

\* Stop packet receiver on VM.
IterStopReceiver ==
    /\ Running
    /\ it.pc = "stop_rx"
    /\ StopCommand(it.vm_app_running,
                   [it EXCEPT
                      !.pc = "gather",
                      !.vm_app_running = FALSE,
                      !.trace = Append(@, IF topology = "p2v2p"
                                             THEN "stop_traffic_loop_on_vm"
                                             ELSE "stop_traffic_rx_on_vm")])
    /\ UNCHANGED << itConfig, bsVars, wuVars, cdVars, fnVars, zlVars >>

\* Gathering statistics: the last snapshot, the end readings of the port
\* counters, the rates; a failed command or too few samples ends the process.
IterGather ==
    /\ Running
    /\ it.pc = "gather"
    /\ RemoteStep([it EXCEPT !.pc = "restore",
                             !.snapshots = @ + 1,
                             !.trace = @ \o << "take_statistics_snapshot",
                                               "get_of_port_packet_stats" >>])
    /\ UNCHANGED << itConfig, bsVars, wuVars, cdVars, fnVars, zlVars >>

\* The restore step with the unconfigure call left out.
IterRestoreKeepsStream ==
    /\ Running
    /\ it.pc = "restore"
    /\ LocalStep([it EXCEPT !.pc = "return"])
    /\ UNCHANGED << itConfig, bsVars, wuVars, cdVars, fnVars, zlVars >>

\* Restoring state for next test: tester.unconfigure_traffic_stream.
IterRestore ==
    /\ Running
    /\ it.pc = "restore"
    /\ LocalStep([it EXCEPT !.pc = "return",
                            !.stream_configured = FALSE,
                            !.trace = Append(@, "unconfigure_traffic_stream")])
    /\ UNCHANGED << itConfig, bsVars, wuVars, cdVars, fnVars, zlVars >>

\* The end of the iteration: the results are filled in (the single packet
\* size runners read the CPU statistics from the DUT here).
IterReturn ==
    /\ Running
    /\ it.pc = "return"
    /\ IF topology \in {"p2v2p", "p"}
          THEN RemoteStep([it EXCEPT
                             !.pc = "done",
                             !.trace = Append(@, "get_cpu_monitoring_stats")])
          ELSE LocalStep([it EXCEPT !.pc = "done"])
    /\ UNCHANGED << itConfig, bsVars, wuVars, cdVars, fnVars, zlVars >>

(***************************************************************************)
(* create_ovs_bidirectional_of_rules and the rule functions it calls       *)
(***************************************************************************)
FlowRuleTypes == {"flows", "NORMAL", "port", "none"}

FlowTypes == {"L2", "L3", "L4-UDP"}

\* What `ovs-ofctl dump-flows | wc -l` can report after an installation.
ObservedCounts == 0 .. (2 * MaxFlows + 1)

RulesInit ==
    \E rt \in FlowRuleTypes, ft \in FlowTypes, n \in 1 .. MaxFlows,
       ms \in BOOLEAN :
        rules = [pc |-> "start",
                 flow_rule_type |-> rt,
                 flow_type |-> ft,
                 number_of_flows |-> n,
                 mac_swap |-> ms,
                 src_port |-> "physical",
                 dst_port |-> "virtual",
                 calls |-> << >>,
                 commands |-> << >>,
                 verified |-> -1]

\* No rules are being programmed.
RulesIdle ==
    rules = [pc |-> "idle",
             flow_rule_type |-> "none",
             flow_type |-> "L2",
             number_of_flows |-> 0,
             mac_swap |-> FALSE,
             src_port |-> "physical",
             dst_port |-> "virtual",
             calls |-> << >>,
             commands |-> << >>,
             verified |-> -1]

\* The per-flow rule function of a flow type.
RuleFunction(ft) ==
    CASE ft = "L2" -> "create_ovs_l2_of_rules"
      [] ft = "L3" -> "create_ovs_l3_of_rules"
      [] ft = "L4-UDP" -> "create_ovs_l4_of_rules"

\* total_number_of_flows of the first call: its default, number_of_flows,
\* except that the L3 composition passes 0 and so skips the verification.
FirstTotal(ft, n) == IF ft = "L3" THEN 0 ELSE n

\* The total with the doubling left out.
SecondTotalSingle(n) == n

\* total_number_of_flows of the second call: number_of_flows * 2
SecondTotal(n) == n * 2

\* The ports of the second call left as they were.
SamePorts(src, dst) == << src, dst >>

\* The ports of the second call: dst_port, src_port
SwappedPorts(src, dst) == << dst, src >>

\* The remote commands of one rule function, in the order it issues them:
\* flush_ovs_flows when clear_rules (and fdb/flush for NORMAL), the command
\* that adds the rules, and the count of the rules when a total is wanted.
RuleCommands(fn, clear, total) ==
    (IF clear THEN << "del-flows" >> ELSE << >>)
    \o (IF clear /\ fn = "create_ovs_of_normal_rule"
           THEN << "fdb/flush" >> ELSE << >>)
    \o << "add-flow" >>
    \o (IF total # 0 THEN << "dump-flows" >> ELSE << >>)

\* die_on_error with failures passed over.
DieOnErrorOff == FALSE

\* die_on_error=True, as every command of the rule functions passes it.
DieOnError == TRUE

\* The commands issued when the one at fail_at fails (0: none fails): with
\* die_on_error the failing command is the last one issued.
Issued(cmds, fail_at) ==
    LET last == IF fail_at # 0 /\ DieOnError THEN fail_at ELSE Len(cmds)
    IN  [i \in 1 .. last |->
            [cmd |-> cmds[i],
             out |-> IF i = fail_at THEN "failed" ELSE "ok"]]

\* A failed command ends the process.
Fatal(fail_at) == fail_at # 0 /\ DieOnError

\* One call of create_ovs_l2/l3/l4_of_rules: clear when clear_rules, add
\* the rules, and when total is not 0 read the rule count and sys.exit on
\* a mismatch.  Each command is run with die_on_error.  A call is logged
\* once its commands have run; observed is -1 when no count was read.  (The
\* limit of 1,000,000 flows of L3 and L4 is far above the flow counts here.)
UnidirectionalCall(fn, in_port, out_port, total, clear, swap, next) ==
    LET cmds == RuleCommands(fn, clear, total)
    IN  \E fail_at \in 0 .. Len(cmds), seen \in ObservedCounts :
        LET call == [fn |-> fn,
                     in_port |-> in_port,
                     out_port |-> out_port,
                     clear_rules |-> clear,
                     total_number_of_flows |-> total,
                     mac_swap |-> swap,
                     observed |-> IF total # 0 THEN seen ELSE -1]
        IN  IF Fatal(fail_at)
               THEN /\ exit_reason' = "remote_failure"
                    /\ rules' = [rules EXCEPT
                            !.commands = @ \o Issued(cmds, fail_at)]
               ELSE /\ rules' = [rules EXCEPT
                            !.calls = Append(@, call),
                            !.commands = @ \o Issued(cmds, fail_at),
                            !.verified = call.observed,
                            !.pc = IF total # 0 /\ seen # total
                                      THEN @ ELSE next]
                    /\ exit_reason' = IF total # 0 /\ seen # total
                                         THEN "rule_count_mismatch"
                                         ELSE exit_reason

\* flow_rule_type "flows": the first call of the bidirectional function of
\* the flow type, from src_port to dst_port, with the defaults.
CreateBidirectionalFirst ==
    /\ Running
    /\ rules.pc = "start"
    /\ rules.flow_rule_type = "flows"
    /\ UnidirectionalCall(RuleFunction(rules.flow_type),
                          rules.src_port, rules.dst_port,
                          FirstTotal(rules.flow_type, rules.number_of_flows),
                          TRUE, FALSE, "second")
    /\ UNCHANGED << bsVars, wuVars, cdVars, itVars, zlVars,
                    rate, ports, loss_pct, cpu >>

\* flow_rule_type "flows": the second call, with the ports swapped,
\* clear_rules=False and twice the flows as total (L2 passes mac_swap).
CreateBidirectionalSecond ==
    /\ Running
    /\ rules.pc = "second"
    /\ LET p == SwappedPorts(rules.src_port, rules.dst_port)
       IN  UnidirectionalCall(RuleFunction(rules.flow_type), p[1], p[2],
                              SecondTotal(rules.number_of_flows),
                              FALSE,
                              rules.flow_type = "L2" /\ rules.mac_swap,
                              "done")
    /\ UNCHANGED << bsVars, wuVars, cdVars, itVars, zlVars,
                    rate, ports, loss_pct, cpu >>

\* flow_rule_type "NORMAL": one call of create_ovs_of_normal_rule, which
\* clears, adds the NORMAL rule and wants to see one rule.
CreateNormalRule ==
    /\ Running
    /\ rules.pc = "start"
    /\ rules.flow_rule_type = "NORMAL"
    /\ UnidirectionalCall("create_ovs_of_normal_rule", "any", "NORMAL",
                          1, TRUE, FALSE, "done")
    /\ UNCHANGED << bsVars, wuVars, cdVars, itVars, zlVars,
                    rate, ports, loss_pct, cpu >>

\* flow_rule_type "port": create_ovs_bidirectional_of_phy_rules clears,
\* adds both rules in one command and wants to see two rules; it calls no
\* unidirectional function.
CreateBidirectionalPhyRules ==
    /\ Running
    /\ rules.pc = "start"
    /\ rules.flow_rule_type = "port"
    /\ \E fail_at \in 0 .. 3, seen \in ObservedCounts :
         LET cmds == << "del-flows", "add-flow", "dump-flows" >>
         IN
         IF Fatal(fail_at)
            THEN /\ exit_reason' = "remote_failure"
                 /\ rules' = [rules EXCEPT
                         !.commands = @ \o Issued(cmds, fail_at)]
            ELSE /\ rules' = [rules EXCEPT
                         !.commands = @ \o Issued(cmds, fail_at),
                         !.verified = seen,
                         !.pc = IF seen # 2 THEN @ ELSE "done"]
                 /\ exit_reason' = IF seen # 2
                                      THEN "rule_count_mismatch"
                                      ELSE exit_reason
    /\ UNCHANGED << bsVars, wuVars, cdVars, itVars, zlVars,
                    rate, ports, loss_pct, cpu >>

\* flow_rule_type "none": no rules installed.
CreateNoRules ==
    /\ Running
    /\ rules.pc = "start"
    /\ rules.flow_rule_type = "none"
    /\ rules' = [rules EXCEPT !.pc = "done"]
    /\ UNCHANGED << procVars, bsVars, wuVars, cdVars, itVars, zlVars,
                    rate, ports, loss_pct, cpu >>

(***************************************************************************)
(* The rate averages: get_packets_per_second_from_pkt_counters,            *)
(* get_packets_per_second_from_traffic_generator_rx_stats and its tx twin, *)
(* get_traffic_rx_stats_from_vm.                                           *)
(***************************************************************************)
\* sys.version_info[0]: the program runs under Python 2 and Python 3.
PythonVersions == {2, 3}

\* The readings and rates of a series.
SampleValues == 0 .. MaxCount

\* The series given to the counter function and to the generator averages.
SeriesInputs == UNION {[1 .. n -> SampleValues] : n \in 0 .. MaxSeries}

\* The Rx-pps lines of results.txt: n rates that start at s.
RxPpsList(n, s) == [i \in 1 .. n |-> (s + i) % (MaxCount + 1)]

\* a / b: the whole quotient under Python 2 (both are int), the exact one
\* under Python 3; a number is kept as numerator and denominator.
PyDivide(py, a, b) == IF py = 2 THEN << a \div b, 1 >> ELSE << a, b >>

\* s[a:-b] for a, b >= 0 (and s[a:] when b = 0): drop a elements from the
\* front and b from the end; empty when nothing is left.
PySlice(s, a, b) ==
    IF Len(s) - b > a THEN SubSeq(s, a + 1, Len(s) - b) ELSE << >>

RECURSIVE SeqSum(_)
\* sum(s), and the avg += pps of the loops.
SeqSum(s) == IF s = << >> THEN 0 ELSE s[1] + SeqSum(Tail(s))

\* The decimal digits of a number, as its text has them.
RECURSIVE Digits(_)
Digits(n) == IF n < 10 THEN << n >> ELSE Digits(n \div 10) \o << n % 10 >>

\* The order of two texts of digits, character by character.
RECURSIVE TextBefore(_, _)
TextBefore(a, b) ==
    IF a = << >> THEN TRUE
    ELSE IF b = << >> THEN FALSE
    ELSE IF a[1] # b[1] THEN a[1] < b[1]
    ELSE TextBefore(Tail(a), Tail(b))

\* The keys sorted as texts.
RECURSIVE SortedAsText(_)
SortedAsText(S) ==
    IF S = {} THEN << >>
    ELSE LET m == CHOOSE x \in S :
                     \A y \in S : TextBefore(Digits(x), Digits(y))
         IN  << m >> \o SortedAsText(S \ {m})

RECURSIVE NatSorted(_)
\* natsorted(list(stats.keys())): the timestamps in ascending order.
NatSorted(S) ==
    IF S = {} THEN << >>
    ELSE LET m == CHOOSE x \in S : \A y \in S : x <= y
         IN  << m >> \o NatSorted(S \ {m})

RECURSIVE DiffSum(_)
\* for i in range(1, len(l)): pkts_sec += l[i] - l[i - 1]
DiffSum(l) ==
    IF Len(l) <= 1 THEN 0
    ELSE DiffSum(SubSeq(l, 1, Len(l) - 1)) + (l[Len(l)] - l[Len(l) - 1])

\* strip < 0 or (len(counter_list) - (strip * 2)) < 2
NotEnoughCounters(l, strip) == strip < 0 \/ (Len(l) - (strip * 2)) < 2

\* The number of rates the VM average wants to be exceeded.
VmMinRates == 10

\* The rates the VM average drops at each end.
VmEdge == 5

\* The window with nothing dropped.
GeneratorWindowWhole(keys) == keys

\* natsorted(...)[2:-2]
GeneratorWindow(keys) == PySlice(keys, 2, 2)

RateInit ==
    \/ \E py \in PythonVersions, c \in SeriesInputs, t \in -1 .. MaxStrip :
         rate = [pc |-> "start", fn |-> "pkt_counters", py |-> py,
                 series |-> c, strip |-> t,
                 work |-> << >>, returned |-> FALSE, result |-> << 0, 1 >>]
    \/ \E py \in PythonVersions, st \in SeriesInputs,
          f \in {"generator_rx", "generator_tx"} :
         rate = [pc |-> "start", fn |-> f, py |-> py,
                 series |-> st, strip |-> 0,
                 work |-> << >>, returned |-> FALSE, result |-> << 0, 1 >>]
    \/ \E py \in PythonVersions, n \in 0 .. MaxVmSamples,
          s \in SampleValues, k \in 0 .. MaxStrip :
         rate = [pc |-> "start", fn |-> "vm_rx", py |-> py,
                 series |-> RxPpsList(n, s), strip |-> k,
                 work |-> << >>, returned |-> FALSE, result |-> << 0, 1 >>]

\* No rate is being computed.
RateIdle ==
    rate = [pc |-> "idle", fn |-> "none", py |-> 2,
            series |-> << >>, strip |-> 0,
            work |-> << >>, returned |-> FALSE, result |-> << 0, 1 >>]

\* The function returns r, computed from the work list w.
RateReturn(w, r) ==
    /\ rate' = [rate EXCEPT !.pc = "done", !.work = w,
                            !.returned = TRUE, !.result = r]
    /\ UNCHANGED exit_reason

\* The function ends the process: sys.exit(-1), or an exception that
\* nothing catches.
RateExit(why) ==
    /\ exit_reason' = why
    /\ UNCHANGED rate

\* get_packets_per_second_from_pkt_counters(counters, strip); rate.series
\* holds the numbers that the re.sub and the split leave of the string.
\* map(int, ...) is a list under Python 2 and an iterator under Python 3,
\* where len() of it raises TypeError.
GetPacketsPerSecondFromPktCounters ==
    /\ Running
    /\ rate.pc = "start"
    /\ rate.fn = "pkt_counters"
    /\ IF rate.py = 3
          THEN IF rate.strip < 0
                  THEN RateExit("not_enough_elements")
                  ELSE RateExit("type_error")
          ELSE IF NotEnoughCounters(rate.series, rate.strip)
                  THEN RateExit("not_enough_elements")
                  ELSE LET l == PySlice(rate.series, rate.strip, rate.strip)
                       IN  RateReturn(l, PyDivide(rate.py, DiffSum(l),
                                                  Len(l) - 1))
    /\ UNCHANGED << bsVars, wuVars, cdVars, itVars, zlVars,
                    rules, ports, loss_pct, cpu >>

\* The loop of both generator averages over the snapshots stats (a dict
\* from timestamp to the pps of the total), then avg / cnt.
GeneratorAverage ==
    LET keys == GeneratorWindow(NatSorted(DOMAIN rate.series))
        w == [i \in 1 .. Len(keys) |-> rate.series[keys[i]]]
        avg == SeqSum(w)
        cnt == Len(w)
    IN  IF cnt = 0
           THEN RateExit("zero_division")
           ELSE RateReturn(w, PyDivide(rate.py, avg, cnt))

\* get_packets_per_second_from_traffic_generator_rx_stats(rx_stats)
GetPacketsPerSecondFromTrafficGeneratorRxStats ==
    /\ Running
    /\ rate.pc = "start"
    /\ rate.fn = "generator_rx"
    /\ GeneratorAverage
    /\ UNCHANGED << bsVars, wuVars, cdVars, itVars, zlVars,
                    rules, ports, loss_pct, cpu >>

\* get_packets_per_second_from_traffic_generator_tx_stats(tx_stats)
GetPacketsPerSecondFromTrafficGeneratorTxStats ==
    /\ Running
    /\ rate.pc = "start"
    /\ rate.fn = "generator_tx"
    /\ GeneratorAverage
    /\ UNCHANGED << bsVars, wuVars, cdVars, itVars, zlVars,
                    rules, ports, loss_pct, cpu >>

\* get_traffic_rx_stats_from_vm(vm, skip_samples=rate.strip): read the
\* Rx-pps lines (a remote command), skip, check, trim, average.
GetTrafficRxStatsFromVm ==
    /\ Running
    /\ rate.pc = "start"
    /\ rate.fn = "vm_rx"
    /\ \E out \in RemoteOutcomes :
         IF out = "failed"
            THEN RateExit("remote_failure")
            ELSE LET skipped == IF rate.strip > 0
                                   THEN PySlice(rate.series, rate.strip, 0)
                                   ELSE rate.series
                     pkt_rates == PySlice(skipped, VmEdge, VmEdge)
                 IN  IF Len(skipped) <= VmMinRates
                        THEN RateExit("not_enough_elements")
                        ELSE IF Len(pkt_rates) = 0
                                THEN RateExit("zero_division")
                                ELSE RateReturn(pkt_rates,
                                        PyDivide(rate.py, SeqSum(pkt_rates),
                                                 Len(pkt_rates)))
    /\ UNCHANGED << bsVars, wuVars, cdVars, itVars, zlVars,
                    rules, ports, loss_pct, cpu >>

(***************************************************************************)
(* get_of_port_packet_stats, and the start and end readings of a run with  *)
(* the deltas the run reports.                                             *)
(***************************************************************************)
\* The order in which the function looks for the counters of the port.
ParseOrder == << "tx", "tx_drop", "rx", "rx_drop" >>

PortCounters == {"tx", "tx_drop", "rx", "rx_drop"}

\* What `ovs-ofctl dump-ports` can show for one counter of the port: no
\* text that the pattern finds ("absent"), and else the text of the group
\* [0-9?]*: digits ("number"), text with a '?' in it ("unknown"), or
\* nothing ("empty").
DumpFields ==
    {[kind |-> "number", value |-> n] : n \in 0 .. MaxReading}
        \cup {[kind |-> k, value |-> 0] : k \in {"unknown", "absent", "empty"}}

Dumps == [PortCounters -> DumpFields]

\* The match test left out.
MatchedAlways(f) == TRUE

\* if m: re.search found the counter of the port
Matched(f) == f.kind # "absent"

\* '?' in m.group(1) gives int(0), else int(m.group(1))
FieldValue(f) == IF f.kind = "unknown" THEN 0 ELSE f.value

\* The first counter, in the order of the function, that ends the process,
\* or "none": a counter that is not found is a sys.exit(-1), and int('')
\* of an empty group raises ValueError.
RECURSIVE FirstFatal(_, _)
FirstFatal(d, i) ==
    IF i > Len(ParseOrder) THEN "none"
    ELSE IF ~Matched(d[ParseOrder[i]]) THEN "parse_error"
    ELSE IF d[ParseOrder[i]].kind = "empty" THEN "value_error"
    ELSE FirstFatal(d, i + 1)

\* tx, tx_drop, rx, rx_drop as returned.
PortStats(d) == [c \in PortCounters |-> FieldValue(d[c])]

NoStats == [c \in PortCounters |-> 0]

NoDump == [c \in PortCounters |-> [kind |-> "number", value |-> 0]]

PortsInit ==
    ports = [pc |-> "start", dump |-> NoDump, last |-> NoStats,
             start |-> NoStats, delta |-> NoStats, flagged |-> {}]

\* No port counters are being read.
PortsIdle ==
    ports = [pc |-> "idle", dump |-> NoDump, last |-> NoStats,
             start |-> NoStats, delta |-> NoStats, flagged |-> {}]

\* get_of_port_packet_stats(of_port): dump the ports (a remote command with
\* die_on_error), then find and convert the four counters; `next` is the
\* state of the run when the function returns.
GetOfPortPacketStats(d, next) ==
    \E out \in RemoteOutcomes :
        IF out = "failed"
           THEN /\ exit_reason' = "remote_failure"
                /\ UNCHANGED ports
           ELSE IF FirstFatal(d, 1) # "none"
                   THEN /\ exit_reason' = FirstFatal(d, 1)
                        /\ ports' = [ports EXCEPT !.dump = d]
                   ELSE /\ ports' = next
                        /\ UNCHANGED exit_reason

\* The readings before the traffic starts:
\* pp_tx_start, pp_tx_drop_start, pp_rx_start, pp_rx_drop_start = ...
PortsSnapshotStart ==
    /\ Running
    /\ ports.pc = "start"
    /\ \E d \in Dumps :
         GetOfPortPacketStats(d, [ports EXCEPT !.pc = "run",
                                               !.dump = d,
                                               !.last = PortStats(d),
                                               !.start = PortStats(d)])
    /\ UNCHANGED << bsVars, wuVars, cdVars, itVars, zlVars,
                    rules, rate, loss_pct, cpu >>

\* The readings after the traffic stopped and the deltas, which the run
\* prints as the packets of the port; nothing looks at their sign.
PortsSnapshotEnd ==
    /\ Running
    /\ ports.pc = "run"
    /\ \E d \in Dumps :
         GetOfPortPacketStats(d,
             [ports EXCEPT
                !.pc = "reported",
                !.dump = d,
                !.last = PortStats(d),
                !.delta = [c \in PortCounters |->
                              PortStats(d)[c] - ports.start[c]],
                !.flagged = {}])
    /\ UNCHANGED << bsVars, wuVars, cdVars, itVars, zlVars,
                    rules, rate, loss_pct, cpu >>

(***************************************************************************)
(* calc_loss_percentage                                                    *)
(***************************************************************************)
PacketTotals == 0 .. MaxPkts

LossInit ==
    \E tx \in PacketTotals, rx \in PacketTotals :
        loss_pct = [pc |-> "start", total_tx_pkts |-> tx, total_rx_pkts |-> rx,
                returned |-> FALSE, value |-> << 0, 1 >>]

\* No loss percentage is being computed.
LossIdle ==
    loss_pct = [pc |-> "idle", total_tx_pkts |-> 0, total_rx_pkts |-> 0,
            returned |-> FALSE, value |-> << 0, 1 >>]

\* max(value, 0) for a value kept as numerator and positive denominator.
MaxWithZero(v) == IF v[1] < 0 THEN << 0, 1 >> ELSE v

\* 100 - (float(rx) / float(tx) * 100) for tx # 0, as the exact number
\* (100 * tx - 100 * rx) / tx.
LossValue(tx, rx) == << 100 * tx - 100 * rx, tx >>

\* calc_loss_percentage(results): float(rx) / float(0) raises
\* ZeroDivisionError, which nothing catches.
CalcLossPercentage ==
    /\ Running
    /\ loss_pct.pc = "start"
    /\ IF loss_pct.total_tx_pkts = 0
          THEN /\ exit_reason' = "zero_division"
               /\ UNCHANGED loss_pct
          ELSE /\ loss_pct' = [loss_pct EXCEPT
                      !.pc = "done",
                      !.returned = TRUE,
                      !.value = MaxWithZero(LossValue(loss_pct.total_tx_pkts,
                                                      loss_pct.total_rx_pkts))]
               /\ UNCHANGED exit_reason
    /\ UNCHANGED << bsVars, wuVars, cdVars, itVars, zlVars,
                    rules, rate, ports, cpu >>

(***************************************************************************)
(* get_cpu_monitoring_stats: the threads of pidstat                        *)
(***************************************************************************)
\* Thread names, as the characters of match.group(2).
NamePmd == << "p", "m", "d", "-", "c", "0", "5", "/", "i", "d", ":", "3", "2" >>

NameRevalidator ==
    << "r", "e", "v", "a", "l", "i", "d", "a", "t", "o", "r", "4" >>

NameHandler == << "h", "a", "n", "d", "l", "e", "r", "1" >>

NameUrcu == << "u", "r", "c", "u", "3" >>

NameVswitchd ==
    << "o", "v", "s", "-", "v", "s", "w", "i", "t", "c", "h", "d" >>

\* A name with a class word in it, but not at its start.
NameVhostPmd == << "v", "h", "o", "s", "t", "-", "p", "m", "d" >>

ThreadNames ==
    {NamePmd, NameRevalidator, NameHandler, NameUrcu, NameVswitchd,
     NameVhostPmd}

CpuClasses == {"pmd", "revalidator", "handler", "urcu", "other"}

\* The literal of the startswith test of a class.
ClassPrefix(c) ==
    CASE c = "pmd" -> << "p", "m", "d" >>
      [] c = "revalidator" ->
            << "r", "e", "v", "a", "l", "i", "d", "a", "t", "o", "r" >>
      [] c = "handler" -> << "h", "a", "n", "d", "l", "e", "r" >>
      [] c = "urcu" -> << "u", "r", "c", "u" >>

\* The test as a search for p anywhere in s.
ContainsAnywhere(s, p) ==
    \E i \in 1 .. Len(s) :
        i + Len(p) - 1 <= Len(s) /\ SubSeq(s, i, i + Len(p) - 1) = p

\* s.startswith(p)
StartsWith(s, p) == Len(s) >= Len(p) /\ SubSeq(s, 1, Len(p)) = p

\* The if / elif chain over the name of a thread.
ClassOf(name) ==
    IF StartsWith(name, ClassPrefix("pmd")) THEN "pmd"
    ELSE IF StartsWith(name, ClassPrefix("revalidator")) THEN "revalidator"
    ELSE IF StartsWith(name, ClassPrefix("handler")) THEN "handler"
    ELSE IF StartsWith(name, ClassPrefix("urcu")) THEN "urcu"
    ELSE "other"

\* The lines of /var/tmp/cpu_ovs.txt that the pattern matches: the name of
\* a thread and its %CPU (in hundredths).
ThreadLines == [name : ThreadNames, cpu : 0 .. MaxCpu]

CpuInputs == UNION {[1 .. n -> ThreadLines] : n \in 0 .. MaxThreads}

NoCpu == [c \in CpuClasses |-> 0]

CpuInit ==
    \E l \in CpuInputs :
        cpu = [pc |-> "start", lines |-> l, classes |-> << >>,
               totals |-> NoCpu, ovs_cpu |-> 0]

\* No CPU statistics are being read.
CpuIdle ==
    cpu = [pc |-> "idle", lines |-> << >>, classes |-> << >>,
           totals |-> NoCpu, ovs_cpu |-> 0]

RECURSIVE ClassTotals(_, _)
\* for match in regex.finditer(...): ovs_cpu_<class> += float(group(1))
ClassTotals(l, acc) ==
    IF l = << >> THEN acc
    ELSE ClassTotals(Tail(l),
                     [acc EXCEPT ![ClassOf(l[1].name)] = @ + l[1].cpu])

\* ovs_cpu_pmd + ovs_cpu_revalidator + ovs_cpu_handler + ovs_cpu_urcu
\*     + ovs_cpu_other
OvsCpuTotal(t) ==
    t["pmd"] + t["revalidator"] + t["handler"] + t["urcu"] + t["other"]

\* get_cpu_monitoring_stats(): read both files (remote commands with
\* die_on_error), class the threads and sum; the sys_ values of mpstat are
\* column sums of the second file and are not kept here.
GetCpuMonitoringStats ==
    /\ Running
    /\ cpu.pc = "start"
    /\ \E out \in RemoteOutcomes :
         IF out = "failed"
            THEN /\ exit_reason' = "remote_failure"
                 /\ UNCHANGED cpu
            ELSE /\ LET t == ClassTotals(cpu.lines, NoCpu)
                    IN  cpu' = [cpu EXCEPT
                                  !.pc = "done",
                                  !.classes = [i \in 1 .. Len(cpu.lines) |->
                                                 ClassOf(cpu.lines[i].name)],
                                  !.totals = t,
                                  !.ovs_cpu = OvsCpuTotal(t)]
                 /\ UNCHANGED exit_reason
    /\ UNCHANGED << bsVars, wuVars, cdVars, itVars, zlVars,
                    rules, rate, ports, loss_pct >>

(***************************************************************************)
(* get_result_sets_from_zero_loss_results                                  *)
(***************************************************************************)
\* Packet sizes a packet list can hold (64 .. 9000 bytes).
PacketSizeChoices == {64, 128, 256, 1514}

\* What a run can leave in the result of a packet size: results that went
\* through calc_loss_percentage in binary_search, so total_tx_pkts is not 0.
RunResults ==
    { [rx_packets_second |-> 1, cpu_stats |-> 0, traffic_rate |-> 1,
       total_tx_pkts |-> 1, total_rx_pkts |-> 1],
      [rx_packets_second |-> 2, cpu_stats |-> 1, traffic_rate |-> 2,
       total_tx_pkts |-> 2, total_rx_pkts |-> 1] }

\* The results as test_p2v2p_zero_loss hands them over after each stream
\* count: the stream counts done so far, each with every packet size.
SetsInit ==
    \E k \in 1 .. MaxFlows, P \in SUBSET PacketSizeChoices :
        /\ P # {}
        /\ Cardinality(P) <= MaxSizes
        /\ \E r \in [1 .. k -> [P -> RunResults]] :
              sets = [pc |-> "start",
                      results |-> r,
                      test_results |-> << >>,
                      cpu_results |-> << >>,
                      traffic_rate_results |-> << >>,
                      loss_rate_results |-> << >>]

\* No result sets are being built.
SetsIdle ==
    sets = [pc |-> "idle",
            results |-> << >>,
            test_results |-> << >>,
            cpu_results |-> << >>,
            traffic_rate_results |-> << >>,
            loss_rate_results |-> << >>]

\* for pkt_size in natsorted(list(per_pkt_results.keys())): the keys in the
\* order in which the four lists are appended to.
SizeOrder(per_pkt_results) == NatSorted(DOMAIN per_pkt_results)

\* The whole function: for every flow count four lists, appended to in the
\* order of the sorted packet sizes.
GetResultSetsFromZeroLossResults ==
    /\ Running
    /\ sets.pc = "start"
    /\ LET res == sets.results
           keys(f) == SizeOrder(res[f])
           list(f, field) ==
               [i \in 1 .. Len(keys(f)) |-> res[f][keys(f)[i]][field]]
           loss(f) ==
               [i \in 1 .. Len(keys(f)) |->
                   MaxWithZero(LossValue(res[f][keys(f)[i]].total_tx_pkts,
                                         res[f][keys(f)[i]].total_rx_pkts))]
       IN  sets' = [sets EXCEPT
               !.pc = "done",
               !.test_results =
                   [f \in DOMAIN res |-> list(f, "rx_packets_second")],
               !.cpu_results = [f \in DOMAIN res |-> list(f, "cpu_stats")],
               !.traffic_rate_results =
                   [f \in DOMAIN res |-> list(f, "traffic_rate")],
               !.loss_rate_results = [f \in DOMAIN res |-> loss(f)]]
    /\ UNCHANGED exit_reason
    /\ UNCHANGED << bsVars, wuVars, cdVars, itVars, fnVars, zl, single_run >>

(***************************************************************************)
(* test_p2v2p_zero_loss and test_p_zero_loss: the search of one packet     *)
(* size and what is recorded for it.  The load 1 of the program is `one`   *)
(* load units here and its load 100 the largest multiple of `one` within   *)
(* MaxLoad; a step is a whole number of units, so that a unit of a third   *)
(* of a percent gives the steps 1/3, 2/3 and 1.                            *)
(***************************************************************************)
\* binary_search(1, 100, 0.00001, ..., bs_step=zero_loss_step): the loss
\* must be (all but) zero, and main lets the step be 0.001 .. 25.
ZeroLossInit ==
    /\ \E one \in 1 .. MaxUnit :
         /\ zl = [pc |-> "search", one |-> one, reached |-> FALSE,
                  recorded |-> -1]
         /\ min_value = one
         /\ max_value = one * (MaxLoad \div one)
    /\ bs_step \in 1 .. MaxStep
    /\ required_result = 0
    /\ values = << >>
    /\ current_min = 0
    /\ current_max = 0
    /\ results = << >>
    /\ calls = << >>
    /\ bs_pc = "start"
    /\ bs_ret = "none"

\* No zero-loss test is running.
ZeroLossIdle ==
    zl = [pc |-> "idle", one |-> 1, reached |-> FALSE, recorded |-> -1]

\* min(results)
MinTested(res) == CHOOSE v \in DOMAIN res : \A w \in DOMAIN res : v <= w

\* if index >= 1: record results[index], zero loss reached; else record
\* results[min(results)], not reached.  min() of an empty dict raises
\* ValueError, which nothing catches.
ZeroLossClassify ==
    /\ Running
    /\ zl.pc = "search"
    /\ bs_pc = "done"
    /\ IF bs_ret >= zl.one
          THEN /\ zl' = [zl EXCEPT !.pc = "done",
                                   !.reached = TRUE,
                                   !.recorded = bs_ret]
               /\ UNCHANGED exit_reason
          ELSE IF DOMAIN results = {}
                  THEN /\ exit_reason' = "value_error"
                       /\ UNCHANGED zl
                  ELSE /\ zl' = [zl EXCEPT !.pc = "done",
                                           !.reached = FALSE,
                                           !.recorded = MinTested(results)]
                       /\ UNCHANGED exit_reason
    /\ UNCHANGED << bsVars, wuVars, cdVars, itVars, fnVars, sets,
                    single_run >>

(***************************************************************************)
(* One run at a load: PVP_binary_search_single_run and                     *)
(* P_binary_search_single_run, the fixed-rate callers test_p2v2p and       *)
(* test_p, and the entry of test_p2v2p_single_packet_size and              *)
(* test_p_single_packet_size up to the configuration of the stream;        *)
(* test_p2v and test_p2p, which set the rate themselves.  Loads are whole  *)
(* percents here.                                                          *)
(***************************************************************************)
\* The load of the full line rate, in percent.
FullLoad == 100

\* Millionths of the line rate in one percent.
PerPercent == 10000

\* The full line rate in millionths.
FullRate == 1000000

\* The callers that search for the zero-loss load.
SearchCallers ==
    {"PVP_binary_search_single_run", "P_binary_search_single_run"}

\* The fixed-rate callers of the single packet size runners.
FixedCallers == {"test_p2v2p", "test_p"}

\* The runners that configure the stream themselves.
DirectRunners == {"test_p2v", "test_p2p"}

\* Values of decrease_rate outside 0 <= decrease_rate < 100.
OutsideRates ==
    {0 - k : k \in 1 .. MaxOutside}
        \cup {FullLoad + k - 1 : k \in 1 .. MaxOutside}

\* decrease_rate handed over as the load itself.
DecreaseRateIsLoad(test_value) == test_value

\* decrease_rate=100 - test_value (100 - config.traffic_rate)
DecreaseRate(test_value) == FullLoad - test_value

\* assert (decrease_rate >= 0 or decrease_rate < 100)
EntryAssertion(decrease_rate) == decrease_rate >= 0 \/ decrease_rate < FullLoad

RunStart(caller, load, decrease_rate) ==
    [pc |-> "call",
     caller |-> caller,
     load |-> load,
     decrease_rate |-> decrease_rate,
     rules_programmed |-> FALSE,
     stream_configured |-> FALSE,
     percentage |-> 0,
     has_traffic_rate |-> FALSE,
     traffic_rate |-> 0]

\* A caller of the module with a load of the search or of the validated
\* configuration (above 0, at most 100); or a call of a single packet size
\* runner with the keyword decrease_rate given, whatever its value.
RunInit ==
    \/ \E c \in SearchCallers \cup FixedCallers \cup DirectRunners,
          l \in 1 .. MaxLoad :
           single_run = RunStart(c, l, 0)
    \/ \E d \in OutsideRates \cup {0, FullLoad - 1} :
           single_run = RunStart("decrease_rate", 0, d)

\* No run is being made.
RunIdle == single_run = [RunStart("none", 0, 0) EXCEPT !.pc = "idle"]

\* The caller works out decrease_rate and calls the runner.
RunCall ==
    /\ Running
    /\ single_run.pc = "call"
    /\ single_run' = [single_run EXCEPT
            !.pc = IF single_run.caller \in DirectRunners
                      THEN "rules" ELSE "assert",
            !.decrease_rate =
                IF single_run.caller \in SearchCallers \cup FixedCallers
                   THEN DecreaseRate(single_run.load) ELSE @]
    /\ UNCHANGED exit_reason
    /\ UNCHANGED << bsVars, wuVars, cdVars, itVars, fnVars, sets, zl >>

\* The entry of the single packet size runners: the assertion, then
\* decrease_rate *= 10000 (kept in percent here, scaled where it is used).
RunAssert ==
    /\ Running
    /\ single_run.pc = "assert"
    /\ IF EntryAssertion(single_run.decrease_rate)
          THEN /\ single_run' = [single_run EXCEPT !.pc = "rules"]
               /\ UNCHANGED exit_reason
          ELSE /\ exit_reason' = "assertion_error"
               /\ UNCHANGED single_run
    /\ UNCHANGED << bsVars, wuVars, cdVars, itVars, fnVars, sets, zl >>

\* Create OVS OpenFlow rules.
RunCreateRules ==
    /\ Running
    /\ single_run.pc = "rules"
    /\ \E out \in RemoteOutcomes :
         IF out = "ok"
            THEN /\ single_run' = [single_run EXCEPT !.pc = "configure",
                                       !.rules_programmed = TRUE]
                 /\ UNCHANGED exit_reason
            ELSE /\ exit_reason' = "remote_failure"
                 /\ UNCHANGED single_run
    /\ UNCHANGED << bsVars, wuVars, cdVars, itVars, fnVars, sets, zl >>

\* tester.configure_traffic_stream(..., percentage=1000000 - decrease_rate)
\* and, in test_p2v and test_p2p, percentage=config.traffic_rate * 10000.
RunConfigureStream ==
    /\ Running
    /\ single_run.pc = "configure"
    /\ single_run' = [single_run EXCEPT
            !.pc = "measure",
            !.stream_configured = TRUE,
            !.percentage =
                IF single_run.caller \in DirectRunners
                   THEN single_run.load * PerPercent
                   ELSE FullRate - (single_run.decrease_rate * PerPercent)]
    /\ UNCHANGED exit_reason
    /\ UNCHANGED << bsVars, wuVars, cdVars, itVars, fnVars, sets, zl >>

\* The rest of the iteration, and what the caller does with the results:
\* the search callers set results["traffic_rate"] = test_value.
RunReturn ==
    /\ Running
    /\ single_run.pc = "measure"
    /\ \E out \in RemoteOutcomes :
         IF out = "ok"
            THEN /\ single_run' = [single_run EXCEPT
                         !.pc = "done",
                         !.has_traffic_rate =
                             single_run.caller \in SearchCallers,
                         !.traffic_rate = IF single_run.caller \in SearchCallers
                                             THEN single_run.load ELSE @]
                 /\ UNCHANGED exit_reason
            ELSE /\ exit_reason' = "remote_failure"
                 /\ UNCHANGED single_run
    /\ UNCHANGED << bsVars, wuVars, cdVars, itVars, fnVars, sets, zl >>

(***************************************************************************)
(* Specifications                                                          *)
(***************************************************************************)
\* The helper functions are not running.
FnIdle == RulesIdle /\ RateIdle /\ PortsIdle /\ LossIdle /\ CpuIdle

\* The zero-loss tests are not running.
ZlIdle == SetsIdle /\ ZeroLossIdle /\ RunIdle

\* Nothing of the search, the waits and the iteration is running.
CoreIdle == ProcIdle /\ BSIdle /\ WUIdle /\ CDIdle /\ ItIdle

InitSearch ==
    ProcIdle /\ BSInit /\ WUIdle /\ CDIdle /\ ItIdle
    /\ FnIdle /\ ZlIdle

NextSearch == BSBuild \/ BSNarrow \/ BSCheckMax \/ BSCheckMin

SpecSearch == InitSearch /\ [][NextSearch]_vars

\* binary_search runs on one thread and every test it runs returns, so a
\* step that can be taken is taken.
SpecSearchFair == SpecSearch /\ WF_vars(NextSearch)

InitWarmUp ==
    ProcIdle /\ BSIdle /\ WUInit /\ CDIdle /\ ItIdle
    /\ FnIdle /\ ZlIdle

NextWarmUp == WarmUpReturnTrue \/ WarmUpTimeout \/ WarmUpPoll

SpecWarmUp == InitWarmUp /\ [][NextWarmUp]_vars

InitCoolDown ==
    ProcIdle /\ BSIdle /\ WUIdle /\ CDInit /\ ItIdle
    /\ FnIdle /\ ZlIdle

NextCoolDown ==
    CoolDownEnter \/ CoolDownReturn \/ CoolDownCeilingHit \/ CoolDownPoll

SpecCoolDown == InitCoolDown /\ [][NextCoolDown]_vars

Init == ProcIdle /\ BSIdle /\ WUIdle /\ CDIdle /\ ItInit /\ FnIdle /\ ZlIdle

Next ==
    \/ IterCreateRules
    \/ IterConfigureStream
    \/ IterWarmUpStart
    \/ WarmUpReturnTrue
    \/ WarmUpTimeout
    \/ WarmUpPoll
    \/ IterWarmUpStop
    \/ IterWarmUpDecide
    \/ IterClearStatistics
    \/ IterStartReceiver
    \/ IterStartCpuMonitoring
    \/ IterStartTraffic
    \/ IterWaitTick
    \/ RemoteProcessExits
    \/ IterStopCpuMonitoring
    \/ IterStopTraffic
    \/ IterStopReceiver
    \/ IterGather
    \/ IterRestore
    \/ IterReturn

Spec == Init /\ [][Next]_vars

InitRules ==
    CoreIdle /\ RulesInit /\ RateIdle /\ PortsIdle /\ LossIdle /\ CpuIdle
    /\ ZlIdle

NextRules ==
    \/ CreateBidirectionalFirst
    \/ CreateBidirectionalSecond
    \/ CreateNormalRule
    \/ CreateBidirectionalPhyRules
    \/ CreateNoRules

SpecRules == InitRules /\ [][NextRules]_vars

InitRate ==
    CoreIdle /\ RulesIdle /\ RateInit /\ PortsIdle /\ LossIdle /\ CpuIdle
    /\ ZlIdle

NextRate ==
    \/ GetPacketsPerSecondFromPktCounters
    \/ GetPacketsPerSecondFromTrafficGeneratorRxStats
    \/ GetPacketsPerSecondFromTrafficGeneratorTxStats
    \/ GetTrafficRxStatsFromVm

SpecRate == InitRate /\ [][NextRate]_vars

InitPorts ==
    CoreIdle /\ RulesIdle /\ RateIdle /\ PortsInit /\ LossIdle /\ CpuIdle
    /\ ZlIdle

NextPorts == PortsSnapshotStart \/ PortsSnapshotEnd

SpecPorts == InitPorts /\ [][NextPorts]_vars

InitLoss ==
    CoreIdle /\ RulesIdle /\ RateIdle /\ PortsIdle /\ LossInit /\ CpuIdle
    /\ ZlIdle

NextLoss == CalcLossPercentage

SpecLoss == InitLoss /\ [][NextLoss]_vars

InitCpu ==
    CoreIdle /\ RulesIdle /\ RateIdle /\ PortsIdle /\ LossIdle /\ CpuInit
    /\ ZlIdle

NextCpu == GetCpuMonitoringStats

SpecCpu == InitCpu /\ [][NextCpu]_vars

InitSets == CoreIdle /\ FnIdle /\ SetsInit /\ ZeroLossIdle /\ RunIdle

NextSets == GetResultSetsFromZeroLossResults

SpecSets == InitSets /\ [][NextSets]_vars

InitZeroLoss ==
    /\ ProcIdle /\ WUIdle /\ CDIdle /\ ItIdle /\ FnIdle /\ SetsIdle
    /\ RunIdle
    /\ ZeroLossInit

NextZeroLoss ==
    BSBuild \/ BSNarrow \/ BSCheckMax \/ BSCheckMin \/ ZeroLossClassify

SpecZeroLoss == InitZeroLoss /\ [][NextZeroLoss]_vars

InitRun == CoreIdle /\ FnIdle /\ SetsIdle /\ ZeroLossIdle /\ RunInit

NextRun ==
    RunCall \/ RunAssert \/ RunCreateRules \/ RunConfigureStream \/ RunReturn

SpecRun == InitRun /\ [][NextRun]_vars

(***************************************************************************)
(* Claims about one run at a load, checked under SpecRun.                  *)
(***************************************************************************)
\* The run is one of a single packet size runner, past its entry.
PastEntry ==
    /\ single_run.caller \notin DirectRunners \cup {"none"}
    /\ single_run.pc \notin {"idle", "call", "assert"}

\* decrease_rate is a percentage at or above 0 and below 100.
RateInRange ==
    0 <= single_run.decrease_rate /\ single_run.decrease_rate < FullLoad

\* C29: test_p2v2p_single_packet_size and test_p_single_packet_size go on
\* only when 0 <= decrease_rate < 100: for any other decrease_rate the
\* entry assertion fails before a rule is programmed or a stream
\* configured.
C29_EntryAssertionGuardsRate ==
    /\ PastEntry => RateInRange
    /\ (single_run.rules_programmed \/ single_run.stream_configured)
         => (single_run.caller \in DirectRunners
               \/ RateInRange)

C28_ReachedIffLoadReturned ==
    /\ (zl.pc # "idle" /\ bs_pc # "start") => Len(values) >= 2
    /\ zl.pc = "done"
         => /\ zl.reached <=> bs_ret # NotFound
            /\ zl.reached => zl.recorded = bs_ret
            /\ ~zl.reached => zl.recorded = MinTested(results)
    /\ exit_reason # "value_error"

(***************************************************************************)
(* Claims about the result sets, checked under SpecSets.                   *)
(***************************************************************************)
\* The packet size of a flow count that has exactly i - 1 smaller ones.
SizeAt(f, i) ==
    CHOOSE p \in DOMAIN sets.results[f] :
        Cardinality({q \in DOMAIN sets.results[f] : q < p}) = i - 1

\* C23: get_result_sets_from_zero_loss_results yields, for every flow
\* count, four lists (throughput, CPU sample, offered load, residual loss)
\* with one entry per packet size, where position i of each list is of the
\* i-th packet size in ascending numeric order.
C23_ResultSetsInNumericOrder ==
    sets.pc = "done"
        => /\ DOMAIN sets.test_results = DOMAIN sets.results
           /\ DOMAIN sets.cpu_results = DOMAIN sets.results
           /\ DOMAIN sets.traffic_rate_results = DOMAIN sets.results
           /\ DOMAIN sets.loss_rate_results = DOMAIN sets.results
           /\ \A f \in DOMAIN sets.results :
                LET n == Cardinality(DOMAIN sets.results[f])
                IN  /\ Len(sets.test_results[f]) = n
                    /\ Len(sets.cpu_results[f]) = n
                    /\ Len(sets.traffic_rate_results[f]) = n
                    /\ Len(sets.loss_rate_results[f]) = n
                    /\ \A i \in 1 .. n :
                         LET r == sets.results[f][SizeAt(f, i)]
                         IN  /\ sets.test_results[f][i] = r.rx_packets_second
                             /\ sets.cpu_results[f][i] = r.cpu_stats
                             /\ sets.traffic_rate_results[f][i]
                                   = r.traffic_rate
                             /\ sets.loss_rate_results[f][i] =
                                   << 100 * (r.total_tx_pkts - r.total_rx_pkts),
                                      r.total_tx_pkts >>

\* The sizes 128, 64 and 1514 of one flow count came out as 64, 128, 1514:
\* the run of 64 bytes is the one with the load 2 and half the packets lost.
C23_Witness ==
    /\ sets.pc = "done"
    /\ DOMAIN sets.results[1] = {64, 128, 1514}
    /\ sets.results[1][64].traffic_rate = 2
    /\ sets.results[1][128].traffic_rate = 1
    /\ sets.results[1][1514].traffic_rate = 1
    /\ sets.traffic_rate_results[1] = << 2, 1, 1 >>
    /\ sets.loss_rate_results[1] = << << 100, 2 >>, << 0, 1 >>, << 0, 1 >> >>

(***************************************************************************)
(* Claims about binary_search, checked under SpecSearch.                   *)
(***************************************************************************)
BSDone == bs_pc = "done"

Tested == DOMAIN results

Called == {calls[i] : i \in 1 .. Len(calls)}

\* The recorded losses are those of a loss function that does not decrease
\* with the load (any such partial function extends to a whole one).
MonotoneResults ==
    \A a \in Tested : \A b \in Tested : a <= b => results[a] <= results[b]

\* The returned load was run, its loss is accepted, and no load run above
\* it is accepted.
ReturnsHighestAccepted ==
    /\ bs_ret \in Tested
    /\ results[bs_ret] <= required_result
    /\ \A v \in Tested :
         (v > bs_ret /\ v <= max_value) => results[v] > required_result

\* C1 as stated: for a monotone loss function, step 1 and a ladder of at
\* least two candidates, the search returns a load whose loss is at most
\* required_result, and no tested load above it is at most required_result.
C1_AlwaysReturnsLoad ==
    (BSDone /\ bs_step = 1 /\ Len(values) >= 2 /\ MonotoneResults)
        => ReturnsHighestAccepted

\* C1 amended: for a monotone loss function, step 1 and a ladder of at
\* least two candidates, the search returns -1 when the lowest candidate
\* was run and its loss exceeds required_result, and otherwise a load whose
\* loss is at most required_result with no tested load above it at most
\* required_result.
C1_ReturnsHighestOrNotFound ==
    (BSDone /\ bs_step = 1 /\ Len(values) >= 2 /\ MonotoneResults)
        => IF bs_ret = NotFound
              THEN /\ ValueAt(0) \in Tested
                   /\ results[ValueAt(0)] > required_result
              ELSE ReturnsHighestAccepted

C1_Witness ==
    /\ BSDone /\ bs_step = 1 /\ Len(values) >= 5 /\ MonotoneResults
    /\ bs_ret # NotFound
    /\ \E v \in Tested : v > bs_ret

\* C2 as stated: when max_value - min_value < step the search returns an
\* empty result map and -1 and never calls the run function.
C2_EmptyWhenRangeBelowStep ==
    (bs_pc # "start" /\ max_value - min_value < bs_step)
        => /\ BSDone
           /\ bs_ret = NotFound
           /\ Tested = {}
           /\ Len(calls) = 0

\* C3 as stated: the ladder is max, max-step, ... in ascending order and
\* every candidate, hence every load passed to the run function, lies
\* between min_value and max_value.
C3_LadderWithinMinMax ==
    bs_pc # "start"
        => /\ \A i \in 1 .. Len(values) :
                /\ values[i] = max_value - (Len(values) - i) * bs_step
                /\ min_value <= values[i]
                /\ values[i] <= max_value
           /\ \A v \in Called : min_value <= v /\ v <= max_value

\* C4: the run function is called at most once per load, and the result
\* map holds exactly the loads it was called on, whatever is returned.
C4_RunOncePerLoad ==
    /\ \A i \in 1 .. Len(calls) : \A j \in 1 .. Len(calls) :
         i # j => calls[i] # calls[j]
    /\ Tested = Called

\* The search returned -1 after finding the upper candidate memoized.
C4_Witness ==
    /\ BSDone /\ bs_ret = NotFound /\ Len(values) >= 4
    /\ current_max < Len(values) - 1
    /\ Len(calls) >= 2

\* C5: for any loss function, once the bracket is one apart the search
\* returns the upper candidate when its loss is at most required_result,
\* else the lower one when its loss is, else -1; a returned load is a
\* memoized load whose loss is at most required_result.
C5_PostConvergenceChoice ==
    (BSDone /\ Len(values) >= 2)
        => /\ current_max - current_min = 1
           /\ ValueAt(current_max) \in Tested
           /\ IF results[ValueAt(current_max)] <= required_result
                 THEN bs_ret = ValueAt(current_max)
                 ELSE /\ ValueAt(current_min) \in Tested
                      /\ IF results[ValueAt(current_min)] <= required_result
                            THEN bs_ret = ValueAt(current_min)
                            ELSE bs_ret = NotFound
           /\ bs_ret # NotFound
                => bs_ret \in Tested /\ results[bs_ret] <= required_result

\* The lower candidate is returned under a loss function that is not
\* monotone.
C5_Witness ==
    /\ BSDone /\ Len(values) >= 2
    /\ bs_ret = ValueAt(current_min)
    /\ ~MonotoneResults

\* C6: when every tested candidate has a loss of at most required_result,
\* the search returns max_value, for every step and ladder of two or more.
C6_FlatRegionReturnsMax ==
    (BSDone /\ Len(values) >= 2
        /\ \A v \in Tested : results[v] <= required_result)
        => bs_ret = max_value

C6_Witness ==
    /\ BSDone /\ Len(values) >= 4 /\ bs_step >= 2
    /\ \A v \in Tested : results[v] <= required_result
    /\ Len(calls) >= 3
    /\ bs_ret = max_value

\* The candidate at index i was run and its loss was too high (fails) or
\* not (passes).
EvaluatedFailing(i) ==
    ValueAt(i) \in DOMAIN results /\ results[ValueAt(i)] > required_result

EvaluatedPassing(i) ==
    ValueAt(i) \in DOMAIN results /\ results[ValueAt(i)] <= required_result

\* C27: at every iteration of the narrowing loop of binary_search, for any
\* losses, 0 <= lo < hi <= n-1 (n the ladder length); every candidate
\* evaluated so far with loss > required_result has index >= hi and every
\* one with loss <= required_result has index <= lo; lo is index 0 or an
\* evaluated passing candidate, hi is index n-1 or an evaluated failing one.
C27_BracketInvariant ==
    bs_pc = "loop"
        => /\ 0 <= current_min
           /\ current_min < current_max
           /\ current_max <= Len(values) - 1
           /\ \A i \in 0 .. (Len(values) - 1) :
                /\ EvaluatedFailing(i) => i >= current_max
                /\ EvaluatedPassing(i) => i <= current_min
           /\ current_min = 0 \/ EvaluatedPassing(current_min)
           /\ current_max = Len(values) - 1 \/ EvaluatedFailing(current_max)

\* Both ends of the bracket have moved: a passing and a failing candidate
\* were evaluated.
C27_Witness ==
    /\ bs_pc = "loop"
    /\ current_min > 0
    /\ current_max < Len(values) - 1
    /\ EvaluatedPassing(current_min)
    /\ EvaluatedFailing(current_max)

\* An iteration of the narrowing loop is due.
Narrowing == bs_pc = "loop" /\ current_max - current_min > 1

\* What one iteration of the narrowing loop does to the bracket.
NarrowingShrinks ==
    LET mid == current_min + ((current_max - current_min) \div 2)
    IN  /\ current_min < mid
        /\ mid < current_max
        /\ \/ current_max' = mid /\ current_min' = current_min
           \/ current_min' = mid /\ current_max' = current_max
        /\ current_max' - current_min' < current_max - current_min
        /\ current_max' - current_min' >= 1
        /\ bs_pc' = "loop"

\* C24: for every ladder of two or more candidates and any losses, the
\* narrowing loop of binary_search terminates: while hi - lo > 1 the index
\* mid = lo + (hi - lo) // 2 lies strictly between lo and hi, each
\* iteration replaces exactly one bound by mid, so hi - lo strictly
\* decreases; the loop is left exactly when hi - lo = 1, and it is left.
C24_NarrowingTerminates ==
    /\ [][/\ Narrowing => NarrowingShrinks
          /\ (bs_pc = "loop" /\ bs_pc' # "loop")
                => current_max - current_min = 1]_vars
    /\ [](bs_pc = "loop" => current_max - current_min >= 1)
    /\ (bs_pc = "loop") ~> (bs_pc = "loop" /\ current_max - current_min = 1)
    /\ <>(bs_pc = "done")

\* The loop was left after two iterations or more.
C24_Witness ==
    /\ bs_pc = "loop"
    /\ current_max - current_min = 1
    /\ Len(values) >= 4
    /\ Len(calls) >= 2

(***************************************************************************)
(* Claims about warm_up_verify, checked under SpecWarmUp.                  *)
(***************************************************************************)
\* warm_up_verify returned True exactly when the last reading reached the
\* requested flow count.
WarmUpResultRight ==
    wu_pc = "done" => (wu_ret <=> wu_active_flows >= requested_flows)

\* C9 as stated: for every timeout value warm_up_verify ends after at most
\* timeout polls, returning True iff a reading reached the requested count.
C9_PollsWithinAnyTimeout ==
    /\ wu_polls <= timeout
    /\ WarmUpResultRight

\* C9 amended: for every timeout of at least 1 warm_up_verify ends after at
\* most timeout polls (each pass of its loop starts below the timeout and
\* counts one up), returning True iff a reading reached the requested
\* count and False otherwise.
C9_BoundedForPositiveTimeout ==
    /\ timeout >= 1 =>
         /\ wu_polls <= timeout
         /\ wu_run_time <= timeout
         /\ (wu_pc = "loop" /\ Running) => wu_run_time < timeout
    /\ WarmUpResultRight

\* The wait ran into its timeout after polling.
C9_Witness ==
    /\ wu_pc = "done" /\ ~wu_ret
    /\ timeout >= 3
    /\ wu_polls = timeout - 1
    /\ wu_active_flows > 0

(***************************************************************************)
(* Claims about flow_table_cool_down, checked under SpecCoolDown.          *)
(***************************************************************************)
\* C10: the cool-down reads the flow count once per pass of its loop and
\* returns as soon as a reading is not above 32; it makes at most 20
\* passes, and with the count still above 32 at the ceiling it ends the run
\* when failure_fatal is set and otherwise warns and returns.
C10_CoolDownBounded ==
    /\ cd_run_time <= 20
    /\ (cd_pc = "loop" /\ Running) => cd_polls = cd_run_time + 1
    /\ (cd_pc = "loop" /\ Running /\ cd_active_flows <= 32)
         => ENABLED CoolDownReturn /\ ~ENABLED CoolDownPoll
    /\ (cd_run_time = 20 /\ cd_active_flows > 32)
         => IF failure_fatal
               THEN exit_reason = "cool_down_timeout" /\ ~cd_warned
               ELSE cd_warned /\ cd_pc = "done" /\ Running
    /\ exit_reason = "cool_down_timeout"
         => failure_fatal /\ cd_run_time = 20 /\ cd_active_flows > 32
    /\ cd_warned
         => ~failure_fatal /\ cd_run_time = 20 /\ cd_active_flows > 32
    /\ (cd_pc = "done" /\ cd_enabled /\ ~cd_warned) => cd_active_flows <= 32

\* The ceiling was reached with cool-down marked best-effort.
C10_Witness ==
    /\ cd_pc = "done" /\ cd_warned /\ Running
    /\ cd_polls = 20

(***************************************************************************)
(* Claims about a test iteration, checked under Spec.                      *)
(***************************************************************************)
\* Nothing of the iteration is left on the tester or the DUT.
CleanState ==
    /\ ~it.stream_configured
    /\ ~it.traffic_running
    /\ ~it.vm_app_running
    /\ ~it.cpu_monitoring

Logged(e) == \E i \in 1 .. Len(it.trace) : it.trace[i] = e

\* The steps from the clearing of the counters on.
AfterWarmUp ==
    it.pc \in {"clear", "start_rx", "start_cpu", "start_traffic", "wait",
               "stop_traffic", "stop_rx", "gather", "restore", "return",
               "done"}

C8_WarmUpTimeoutPolicy ==
    /\ it.pc = "warm_up_decide"
         => /\ ~it.traffic_running
            /\ it.trace[Len(it.trace)] = "stop_traffic"
    /\ exit_reason = "warm_up_timeout"
         => /\ warm_up /\ ~warm_up_no_fail /\ ~it.warm_up_done
            /\ it.pc = "warm_up_decide"
            /\ ~Logged("clear_statistics")
            /\ TrafficStarts(it.trace) = 1
    /\ (warm_up /\ ~warm_up_no_fail /\ AfterWarmUp) => it.warm_up_done
    /\ (warm_up /\ warm_up_no_fail /\ ~it.warm_up_done /\ Running
          /\ it.pc = "warm_up_decide")
         => ENABLED IterWarmUpDecide
    /\ (warm_up /\ warm_up_no_fail) => exit_reason # "warm_up_timeout"

\* A warm-up timed out under warm_up_no_fail and the iteration measured
\* and reached its result.
C8_Witness ==
    /\ it.pc = "done" /\ Running
    /\ warm_up /\ warm_up_no_fail /\ ~it.warm_up_done
    /\ Logged("clear_statistics")
    /\ TrafficStarts(it.trace) = 2

\* A warm-up timed out without warm_up_no_fail and ended the single_run.
C8_FatalReached == exit_reason = "warm_up_timeout"

\* The passes of the wait loop made so far: wait_i is 1 before the first.
WaitPasses == it.wait_i - 1

\* The wait loop is over and the measurement traffic is about to be stopped.
AboutToStopTraffic == it.pc = "stop_traffic"

\* C25: with run_time = T the wait loop of the measurement makes T passes,
\* each a wait of one time unit followed by a counter snapshot, so that the
\* measurement traffic is stopped only after T time units of generation.
C25_WaitsForRunTime ==
    AboutToStopTraffic
        => /\ WaitPasses = run_time
           /\ topology # "p2v" => it.snapshots = run_time

\* The place of the last call of e in the calls of the iteration, 0 if none.
LastCall(e) ==
    LET at == {i \in 1 .. Len(it.trace) : it.trace[i] = e}
    IN  IF at = {} THEN 0 ELSE CHOOSE i \in at : \A j \in at : j <= i

\* C26 as stated: the measurement traffic is stopped, then the CPU
\* monitoring, then the final snapshots are taken; the monitoring is never
\* stopped while the measurement traffic is still being generated.
C26_TrafficStoppedBeforeMonitoring ==
    Logged("stop_cpu_monitoring") => ~it.traffic_running

\* C26 amended: the CPU monitoring is stopped first, while the measurement
\* traffic is still being generated, then the traffic is stopped, then (in
\* the runners with a VM) the receiver on the VM, and only then the final
\* snapshots are taken.
C26_MonitoringStoppedBeforeTraffic ==
    /\ it.pc = "stop_traffic"
         => /\ Logged("stop_cpu_monitoring")
            /\ LastCall("stop_traffic") < LastCall("stop_cpu_monitoring")
            /\ LastCall("start_traffic") < LastCall("stop_cpu_monitoring")
            /\ it.traffic_running
    /\ Logged("take_statistics_snapshot")
         => /\ 0 < LastCall("stop_cpu_monitoring")
            /\ LastCall("stop_cpu_monitoring") < LastCall("stop_traffic")
            /\ LastCall("stop_traffic")
                  < LastCall("take_statistics_snapshot")
            /\ ~it.traffic_running
            /\ topology = "p2v2p"
                  => /\ LastCall("stop_traffic")
                          < LastCall("stop_traffic_loop_on_vm")
                     /\ LastCall("stop_traffic_loop_on_vm")
                          < LastCall("take_statistics_snapshot")
            /\ topology = "p2v"
                  => /\ LastCall("stop_traffic")
                          < LastCall("stop_traffic_rx_on_vm")
                     /\ LastCall("stop_traffic_rx_on_vm")
                          < LastCall("take_statistics_snapshot")

\* An iteration with a warm-up took its final snapshots.
C26_Witness ==
    /\ Logged("take_statistics_snapshot")
    /\ topology = "p2v2p"
    /\ warm_up
    /\ Running

\* The iteration stands at (or was ended by) a stop command whose target
\* process is gone.
StopTargetAbsent ==
    \/ it.pc = "wait" /\ ~(it.wait_i < run_time) /\ ~it.cpu_monitoring
    \/ it.pc = "stop_rx" /\ ~it.vm_app_running

\* C21: a stop command of the iteration (CPU monitoring, VM receiver or
\* loop) whose target process is already absent does not fail the run: the
\* process is not ended at that command.
C21_StopToleratesAbsentProcess == StopTargetAbsent => Running

(***************************************************************************)
(* Claims about the rule programming, checked under SpecRules.             *)
(***************************************************************************)
RulesPerFlow == rules.flow_rule_type = "flows"

\* The second call has the ports of the first swapped, does not clear and
\* verifies against twice the flows of one direction.
SecondCallSwapped ==
    /\ rules.calls[2].fn = rules.calls[1].fn
    /\ rules.calls[2].in_port = rules.calls[1].out_port
    /\ rules.calls[2].out_port = rules.calls[1].in_port
    /\ ~rules.calls[2].clear_rules
    /\ rules.calls[2].total_number_of_flows = 2 * rules.number_of_flows

\* C11: for the per-flow strategies (L2, L3, L4-UDP) and every flow count
\* N >= 1, bidirectional programming completes only if the rule count read
\* after the second installation is exactly 2*N, and any other count read
\* there ends the run with the rule-count mismatch error.
C11_BidirectionalCountVerified ==
    (RulesPerFlow /\ rules.number_of_flows >= 1)
        => /\ rules.pc = "done"
                => /\ Running
                   /\ Len(rules.calls) = 2
                   /\ rules.calls[2].observed = 2 * rules.number_of_flows
           /\ (Len(rules.calls) = 2
                 /\ rules.calls[2].observed # 2 * rules.number_of_flows)
                => /\ exit_reason = "rule_count_mismatch"
                   /\ rules.pc # "done"

\* Two flows in each direction were programmed and four rules were seen.
C11_Witness ==
    /\ RulesPerFlow /\ rules.pc = "done" /\ Running
    /\ rules.number_of_flows = 2
    /\ rules.calls[2].observed = 4

\* C12 as stated: for every flow-rule strategy a bidirectional rule set is
\* programmed by exactly two unidirectional calls with the ports swapped,
\* the second of which does not clear and verifies against twice the
\* expected count of one direction.
C12_AlwaysTwoSwappedCalls ==
    rules.pc = "done" => (Len(rules.calls) = 2 /\ SecondCallSwapped)

\* C12 amended: for the per-flow strategies (L2, L3, L4-UDP) a
\* bidirectional rule set is programmed by exactly two unidirectional
\* calls with the ports swapped, the second of which does not clear and
\* verifies against twice the expected count of one direction; NORMAL makes
\* one call that wants one rule, port makes none (one command adds both
\* rules and two rules are wanted) and none installs nothing.
C12_PerFlowTwoSwappedCalls ==
    /\ (RulesPerFlow /\ Len(rules.calls) >= 1)
         => /\ rules.calls[1].in_port = rules.src_port
            /\ rules.calls[1].out_port = rules.dst_port
            /\ rules.calls[1].clear_rules
    /\ (RulesPerFlow /\ Len(rules.calls) >= 2) => SecondCallSwapped
    /\ (RulesPerFlow /\ rules.pc = "done")
         => /\ Len(rules.calls) = 2
            /\ rules.verified = 2 * rules.number_of_flows
    /\ (rules.flow_rule_type = "NORMAL" /\ rules.pc = "done")
         => Len(rules.calls) = 1 /\ rules.verified = 1
    /\ (rules.flow_rule_type = "port" /\ rules.pc = "done")
         => Len(rules.calls) = 0 /\ rules.verified = 2
    /\ (rules.flow_rule_type = "none" /\ rules.pc = "done")
         => Len(rules.calls) = 0 /\ rules.verified = -1

\* The L2 rules of both directions were programmed with mac_swap.
C12_Witness ==
    /\ RulesPerFlow /\ rules.pc = "done" /\ Running
    /\ rules.flow_type = "L2" /\ rules.mac_swap
    /\ Len(rules.calls) = 2
    /\ rules.calls[2].in_port = "virtual"
    /\ rules.calls[2].mac_swap

\* The positions of the failed commands among the commands issued.
FailedCommands ==
    {i \in 1 .. Len(rules.commands) : rules.commands[i].out = "failed"}

\* C22: a remote command failure while clearing, programming or verifying
\* the rules ends the whole run: the failed command is the last command
\* issued (nothing follows it and it is not issued again), the rule
\* programming never completes, so no later step of the iteration is
\* reached, and the process has ended with the remote failure.
C22_RuleCommandFailureIsFatal ==
    /\ FailedCommands # {}
         => /\ exit_reason = "remote_failure"
            /\ FailedCommands = {Len(rules.commands)}
            /\ rules.pc # "done"
    /\ exit_reason = "remote_failure"
         => FailedCommands = {Len(rules.commands)}

\* The count of the rules failed in the second call, after the rules of
\* both directions had been added.
C22_Witness ==
    /\ exit_reason = "remote_failure"
    /\ rules.pc = "second"
    /\ Len(rules.calls) = 1
    /\ Len(rules.commands) >= 4
    /\ rules.commands[Len(rules.commands)] =
          [cmd |-> "dump-flows", out |-> "failed"]

(***************************************************************************)
(* Claims about the rate averages, checked under SpecRate.                 *)
(***************************************************************************)
\* The function was called: it returned, or it ended the process.
RateApplied == rate.pc = "done" \/ ~Running

\* The readings left when strip readings are dropped at each end.
Remaining ==
    SubSeq(rate.series, rate.strip + 1, Len(rate.series) - rate.strip)

\* C13 as stated: for a series of counter readings and strip = t >= 0 with
\* at least 2*t + 2 readings, the counter function drops t readings at each
\* end and returns the mean of the first differences of the rest, which is
\* (last - first) / (count - 1) of the rest (the quotient as the
\* interpreter divides two whole numbers).
C13_ReturnsMeanOfDifferences ==
    (rate.fn = "pkt_counters" /\ RateApplied /\ rate.strip >= 0
        /\ Len(rate.series) >= 2 * rate.strip + 2)
        => /\ rate.returned
           /\ rate.work = Remaining
           /\ rate.result = PyDivide(rate.py, DiffSum(Remaining),
                                     Len(Remaining) - 1)
           /\ rate.result = PyDivide(rate.py,
                                     Remaining[Len(Remaining)] - Remaining[1],
                                     Len(Remaining) - 1)

\* C14 as stated: the counter function fails with the not-enough-elements
\* error, computing no rate, exactly when strip is negative or the series
\* has fewer than 2*strip + 2 readings, and whenever it computes a rate at
\* least two readings are left, so that the divisor is at least 1.
C14_InsufficientSamplesExactly ==
    (rate.fn = "pkt_counters" /\ RateApplied)
        => /\ exit_reason = "not_enough_elements"
                <=> (rate.strip < 0
                       \/ Len(rate.series) < 2 * rate.strip + 2)
           /\ exit_reason = "not_enough_elements" => ~rate.returned
           /\ rate.returned => Len(rate.work) - 1 >= 1

RateOfGenerator == rate.fn \in {"generator_rx", "generator_tx"}

\* The snapshots but the first two and the last two, by timestamp.
Interior == SubSeq(rate.series, 3, Len(rate.series) - 2)

TooFewSamples ==
    CASE rate.fn = "pkt_counters" ->
            rate.strip < 0 \/ Len(rate.series) - 2 * rate.strip < 2
      [] RateOfGenerator -> Len(rate.series) - 4 < 1
      [] rate.fn = "vm_rx" -> Len(rate.series) - rate.strip - 10 < 1
      [] OTHER -> FALSE

\* C16 as stated: every rate average (generator, VM, counter series)
\* reports the not-enough-elements error when too few samples are left
\* after the trimming, and none divides by a sample count of zero.
C16_NoZeroDivision ==
    (RateApplied /\ exit_reason # "remote_failure")
        => /\ exit_reason # "zero_division"
           /\ TooFewSamples => exit_reason = "not_enough_elements"

(***************************************************************************)
(* Claims about the port counters, checked under SpecPorts.                *)
(***************************************************************************)
\* C17: get_of_port_packet_stats returns for tx, tx_drop, rx and rx_drop
\* the number of the dump when there is one and 0 when the dump shows the
\* counter as '?'; it ends the run when a counter of the port is not in
\* the dump, never returning 0 for it, and a '?' never ends the single_run.
C17_UnknownIsZeroAbsentIsFatal ==
    /\ (Running /\ ports.pc \in {"run", "reported"})
         => \A c \in PortCounters :
              /\ ports.dump[c].kind \in {"number", "unknown"}
              /\ ports.dump[c].kind = "number"
                    => ports.last[c] = ports.dump[c].value
              /\ ports.dump[c].kind = "unknown" => ports.last[c] = 0
    /\ (\E c \in PortCounters : ports.dump[c].kind = "absent")
         => exit_reason \in {"parse_error", "value_error"}
    /\ exit_reason = "parse_error"
         => \E c \in PortCounters : ports.dump[c].kind = "absent"
    /\ (~Running /\ exit_reason # "remote_failure")
         => \E c \in PortCounters : ports.dump[c].kind \in {"absent", "empty"}

\* The end readings were taken from a dump with tx unknown and rx 1.
C17_Witness ==
    /\ Running /\ ports.pc = "reported"
    /\ ports.dump["tx"].kind = "unknown"
    /\ ports.dump["rx"] = [kind |-> "number", value |-> 1]
    /\ ports.last["tx"] = 0
    /\ ports.last["rx"] = 1

\* C18 as stated: every delta a run computes between its start and end
\* readings is >= 0 or is flagged by the run as an anomaly.
C18_NegativeDeltaFlagged ==
    ports.pc = "reported"
        => \A c \in PortCounters :
              ports.delta[c] >= 0 \/ c \in ports.flagged

(***************************************************************************)
(* Claims about calc_loss_percentage, checked under SpecLoss.              *)
(***************************************************************************)
\* C19 as stated: for all totals >= 0, received more than transmitted and
\* nothing transmitted included, calc_loss_percentage returns a value
\* within [0, 100].
C19_LossWithinBounds ==
    (loss_pct.pc = "done" \/ ~Running)
        => /\ loss_pct.returned
           /\ loss_pct.value[1] >= 0
           /\ loss_pct.value[1] <= 100 * loss_pct.value[2]

(***************************************************************************)
(* Claims about get_cpu_monitoring_stats, checked under SpecCpu.           *)
(***************************************************************************)
\* The first characters of s are those of p.
HasPrefix(s, p) == \A i \in 1 .. Len(p) : i <= Len(s) /\ s[i] = p[i]

RECURSIVE CpuWhere(_, _, _)
\* The %CPU of the lines that were given class c.
CpuWhere(l, cl, c) ==
    IF l = << >> THEN 0
    ELSE (IF cl[1] = c THEN l[1].cpu ELSE 0) + CpuWhere(Tail(l), Tail(cl), c)

\* C20: every thread is given exactly one class of pmd, revalidator,
\* handler, urcu and other, the one whose literal its name starts with and
\* other when there is none (pmd-c05/id:32 is pmd, revalidator4 is
\* revalidator, ovs-vswitchd is other); the total of a class is the sum
\* over its threads, and ovs_cpu is the sum of the five class totals.
C20_ThreadsClassedByPrefix ==
    cpu.pc = "done"
        => /\ Len(cpu.classes) = Len(cpu.lines)
           /\ \A i \in 1 .. Len(cpu.lines) :
                LET n == cpu.lines[i].name
                IN  /\ cpu.classes[i] \in CpuClasses
                    /\ \A c \in CpuClasses \ {"other"} :
                         cpu.classes[i] = c <=> HasPrefix(n, ClassPrefix(c))
                    /\ n = NamePmd => cpu.classes[i] = "pmd"
                    /\ n = NameRevalidator => cpu.classes[i] = "revalidator"
                    /\ n = NameVswitchd => cpu.classes[i] = "other"
           /\ \A c \in CpuClasses :
                cpu.totals[c] = CpuWhere(cpu.lines, cpu.classes, c)
           /\ cpu.ovs_cpu = cpu.totals["pmd"] + cpu.totals["revalidator"]
                              + cpu.totals["handler"] + cpu.totals["urcu"]
                              + cpu.totals["other"]
           /\ cpu.ovs_cpu = CpuWhere(cpu.lines,
                                     [i \in 1 .. Len(cpu.lines) |-> "all"],
                                     "all")

\* A pmd thread, a thread with pmd inside its name and the main thread.
C20_Witness ==
    /\ cpu.pc = "done" /\ Len(cpu.lines) = 3
    /\ cpu.lines[1] = [name |-> NamePmd, cpu |-> 1]
    /\ cpu.lines[2] = [name |-> NameVhostPmd, cpu |-> 1]
    /\ cpu.lines[3] = [name |-> NameVswitchd, cpu |-> 1]
    /\ cpu.totals["pmd"] = 1
    /\ cpu.totals["other"] = 2
    /\ cpu.ovs_cpu = 3

=============================================================================
